---- MODULE Spec2Model ----
(***************************************************************************)
(* Model of scr/temperature_controller.py of Bluefors_toolbox:             *)
(*   TimedQueue        - the time-bounded sample window                    *)
(*   BackgroundWorker  - start()/stop()/_wait() of the periodic task       *)
(*   TemperaturePoller - the polling loop that feeds the window            *)
(*   StableTemperaturePoller - the stability detector and its waiters      *)
(*   TemperatureController, PIDCalibrator - the control session and the    *)
(*                       heater calibration procedures                     *)
(*   TemperaturePlotter - the reader thread of the plot window             *)
(* Time is an integer clock; one unit is 30 seconds, so that               *)
(* timedelta(minutes=1) is Minute = 2 units.                               *)
(***************************************************************************)
EXTENDS Integers, Sequences, FiniteSets, TLC

\* ------------------------------------------------------------------ bounds
MaxTime == 3
MaxTtl == 2
MaxVal == 1
MaxLen == 3
\* start()/stop() calls made in one run, sensor reads begun, calling threads
MaxCalls == 3
MaxReads == 2
NCallers == 2
\* samples read by the detector loop, control sessions, calls of the
\* calibration procedures
MaxPolls == 4
MaxSessions == 2
MaxProcs == 2
\* heater or scanner requests that raise in one run
MaxFaults == 1
\* get_data calls of the plotter in one run
MaxSnapshots == 2

\* timedelta(minutes=1) in clock units
Minute == 2

Values == 0..MaxVal
\* Optional[timedelta]: {} is None, {d} is the timedelta d
Spans == {{}} \cup {{d} : d \in (0 - 1)..(MaxTtl + 1)}
\* the threads that call start() and stop(); the Thread objects start() creates
Callers == 1..NCallers
\* the readings the sensor returns to the poller
SensorValues == {0, MaxVal}
Threads == 1..MaxCalls

VARIABLES
    now,        \* datetime.now()
    qstate,     \* "unbuilt" | "ok" | "rejected" : outcome of TimedQueue.__init__
    ttl,        \* TimedQueue.ttl
    full_time,  \* TimedQueue.full_time
    times,      \* TimedQueue._times
    values,     \* TimedQueue._values
    result,     \* what the last call on the window returned or raised
    stop_flag,  \* BackgroundWorker._stop_flag (threading.Event)
    wakeup,     \* BackgroundWorker._wakeup (threading.Event)
    thread,     \* BackgroundWorker._thread: 0 is None, else a Thread object
    nthreads,   \* Thread objects created so far
    tpc,        \* per Thread object: where its _run is
    tval,       \* per Thread object: the local val of _run
    cpc,        \* per calling thread: where it is inside start() or stop()
    cthr,       \* per calling thread: the Thread object its join() waits for
    ncalls,     \* start() and stop() calls begun
    serial,     \* whether the callers keep start() apart from every other call
    g,          \* history of the run, read by the properties only
    stability_kelvin, \* StableTemperaturePoller.stability_kelvin
    stable_event,     \* StableTemperaturePoller._stable_event (threading.Event)
    stable_start,     \* StableTemperaturePoller._stable_start: {} is None
    ptimes,     \* _times of the additional queue (the controller's plot_queue)
    pvalues,    \* _values of the additional queue
    sids,       \* per sample of the stability window: its number in the run
    wpc,        \* per waiting thread: where it is inside wait_for_stability
    dg,         \* history of the detector, read by the properties only
    scanner,    \* the Lakeshore scanner: autoscan and channel
    ctl,        \* TemperatureController: target, _context_active,
                \* _autoscan_state_at_enter, _plotter
    staged,     \* heater parameters written and not yet accepted
    heater,     \* heater parameters in effect
    hlog,       \* every heater write and accept, in the order issued
    upc,        \* the user thread: where it is in the session and its calls
    cal,        \* locals of the running calibration procedure
    kg,         \* history of the session, read by the properties only
    pq,         \* the poller and the plotter inside accessors of the plot window
    bf          \* BlueforsLD400: system information, cached response, get_value

qvars == <<now, qstate, ttl, full_time, times, values, result>>
wvars == <<stop_flag, wakeup, thread, nthreads, tpc, tval, cpc, cthr, ncalls, serial, g>>
dvars == <<stability_kelvin, stable_event, stable_start, ptimes, pvalues, sids, wpc, dg>>
kvars == <<scanner, ctl, staged, heater, hlog, upc, cal, kg>>
xvars == <<dvars, kvars, pq, bf>>
vars == <<now, qstate, ttl, full_time, times, values, result,
          stop_flag, wakeup, thread, nthreads, tpc, tval, cpc, cthr, ncalls, serial, g,
          stability_kelvin, stable_event, stable_start, ptimes, pvalues, sids, wpc, dg,
          scanner, ctl, staged, heater, hlog, upc, cal, kg, pq, bf>>

NoResult ==
    [op |-> "none", ok |-> TRUE, val |-> 0, rt |-> <<>>, rv |-> <<>>,
     pre_t |-> <<>>, pre_v |-> <<>>, at |-> 0]

\* ------------------------------------------------------------ TimedQueue
\* bool(timedelta): None and timedelta(0) are falsy
Truthy(mts) == mts # {} /\ mts # {0}

TheSpan(mts) == CHOOSE d \in mts : TRUE

\* full_time as __init__ computes it
EffectiveFullTime(tl, mts) == IF Truthy(mts) THEN TheSpan(mts) ELSE tl - Minute

\* assert self.ttl > self.full_time
AssertTtlLoose(tl, ft) == tl >= ft
AssertTtl(tl, ft) == tl > ft

\* _cleanup: pop from the left while the oldest sample is older than ttl
RECURSIVE Cleanup(_, _, _, _)
CleanupOnce(ts, vs, n, tl) ==
    IF ts # <<>> /\ n - Head(ts) > tl
    THEN [t |-> Tail(ts), v |-> Tail(vs)]
    ELSE [t |-> ts, v |-> vs]
Cleanup(ts, vs, n, tl) ==
    IF ts # <<>> /\ n - Head(ts) > tl
    THEN Cleanup(Tail(ts), Tail(vs), n, tl)
    ELSE [t |-> ts, v |-> vs]

\* append: _cleanup, then push (now, value) on the right
AppendQ(ts, vs, n, tl, x) ==
    LET c == Cleanup(ts, vs, n, tl)
    IN  [t |-> Append(c.t, n), v |-> Append(c.v, x)]

RECURSIVE SeqMax(_)
SeqMax(s) ==
    IF Len(s) = 1 THEN s[1]
    ELSE LET m == SeqMax(Tail(s)) IN IF s[1] > m THEN s[1] ELSE m

RECURSIVE SeqMin(_)
SeqMin(s) ==
    IF Len(s) = 1 THEN s[1]
    ELSE LET m == SeqMin(Tail(s)) IN IF s[1] < m THEN s[1] ELSE m

\* span raises RuntimeError when fewer than 2 values are retained
SpanRaisesLoose(vs) == Len(vs) < 1
SpanRaises(vs) == Len(vs) < 2

SpanValue(vs) == SeqMax(vs) - SeqMin(vs)

\* bool(self._times and (self._times[-1] - self._times[0] >= self.full_time))
IsFullValue(ts, ft) == ts # <<>> /\ ts[Len(ts)] - ts[1] >= ft

Res(op, ok, val, c) ==
    [op |-> op, ok |-> ok, val |-> val, rt |-> c.t, rv |-> c.v,
     pre_t |-> times, pre_v |-> values, at |-> now]

NoHistory ==
    [requested |-> FALSE, stops |-> 0, stop_left_running |-> FALSE,
     late_append |-> FALSE, stop_raised |-> FALSE, start_raised |-> FALSE,
     begun |-> 0, appended |-> 0, failed |-> 0, reported |-> 0, late_reads |-> 0]

\* BackgroundWorker.__init__ and TemperaturePoller.__init__
InitWorker ==
    /\ stop_flag = FALSE
    /\ wakeup = FALSE
    /\ thread = 0
    /\ nthreads = 0
    /\ tpc = [t \in Threads |-> "none"]
    /\ tval = [t \in Threads |-> 0]
    /\ cpc = [c \in Callers |-> "idle"]
    /\ cthr = [c \in Callers |-> 0]
    /\ ncalls = 0
    /\ g = NoHistory

\* the threads that call wait_for_stability
Waiters == {1, 2}

NoDetectorHistory ==
    [samples |-> 0, lost_upto |-> 0, seen |-> [w \in Waiters |-> FALSE],
     kind |-> "none", exact |-> FALSE, last |-> 0]

\* StableTemperaturePoller.__init__ with stability_kelvin = tol
InitStable(tol) ==
    /\ stability_kelvin = tol
    /\ stable_event = FALSE
    /\ stable_start = {}
    /\ ptimes = <<>>
    /\ pvalues = <<>>
    /\ sids = <<>>
    /\ wpc = [w \in Waiters |-> "idle"]
    /\ dg = NoDetectorHistory

\* no StableTemperaturePoller has been built: only a plain TemperaturePoller
NoDetector ==
    /\ stability_kelvin = 0
    /\ stable_event = FALSE
    /\ stable_start = {}
    /\ ptimes = <<>>
    /\ pvalues = <<>>
    /\ sids = <<>>
    /\ wpc = <<>>
    /\ dg = <<>>

\* LakeshoreInputs.sensors: pt1, pt2, still, mxc
Channels == {1, 2, 5, 6}

\* Heater.RANGES without 'off' (range 0): 31.6uA, 100uA, ..., 100mA
NRanges == 8
Ranges == 1..NRanges

HeaterOff == [mode |-> "off", range |-> 0, manual_value |-> 0, setpoint |-> 0, p |-> 0]

\* manual output of calibrate_ranges; first gain and gain limit of calibrate_p
ManualOutput == 50
FirstGain == 5
GainLimit == 10000

NoSessionHistory ==
    [sessions |-> 0, procs |-> 0, entry_autoscan |-> {}, exited |-> FALSE,
     touched |-> FALSE, outside |-> FALSE, wrote_outside |-> FALSE,
     proc |-> "none", done |-> FALSE,
     faults |-> 0, pending |-> FALSE, raising |-> FALSE, left |-> "none",
     fault_pc |-> "none",
     scope |-> [state |-> "none", accepts |-> 0], since |-> FALSE]

NoLocals ==
    [r |-> 0, results |-> <<>>, p |-> 0, setpoint |-> 0, ret |-> "out", after |-> "out"]

\* TemperatureController.__init__ and PIDCalibrator.__init__ over a scanner
\* in the state sc and a heater in the state h
InitSession(sc, tgt, h) ==
    /\ scanner = sc
    /\ ctl = [target |-> tgt, context_active |-> FALSE, at_enter |-> {}, plotter |-> FALSE]
    /\ staged = h
    /\ heater = h
    /\ hlog = <<>>
    /\ upc = "out"
    /\ cal = NoLocals
    /\ kg = NoSessionHistory
    /\ pq = <<>>
    /\ bf = <<>>

\* no TemperatureController has been built
NoSession ==
    /\ scanner = <<>>
    /\ ctl = <<>>
    /\ staged = <<>>
    /\ heater = <<>>
    /\ hlog = <<>>
    /\ upc = "none"
    /\ cal = <<>>
    /\ kg = <<>>
    /\ pq = <<>>
    /\ bf = <<>>

InitQ ==
    /\ now = 0
    /\ qstate = "unbuilt"
    /\ ttl = 0
    /\ full_time = 0
    /\ times = <<>>
    /\ values = <<>>
    /\ result = NoResult
    /\ InitWorker
    /\ serial = TRUE
    /\ NoDetector
    /\ NoSession

\* TimedQueue(ttl, minimal_timespan)
Construct ==
    /\ qstate = "unbuilt"
    /\ \E tl \in 1..MaxTtl, mts \in Spans :
        /\ ttl' = tl
        /\ full_time' = EffectiveFullTime(tl, mts)
        /\ qstate' = IF AssertTtl(tl, EffectiveFullTime(tl, mts)) THEN "ok" ELSE "rejected"
    /\ UNCHANGED <<now, times, values, result>>
    /\ UNCHANGED wvars
    /\ UNCHANGED xvars

\* the clock advances
Tick ==
    /\ now < MaxTime
    /\ now' = now + 1
    /\ UNCHANGED <<qstate, ttl, full_time, times, values, result>>
    /\ UNCHANGED wvars
    /\ UNCHANGED xvars

QAppend ==
    /\ qstate = "ok"
    /\ \E x \in Values :
        LET a == AppendQ(times, values, now, ttl, x)
        IN  /\ Len(a.t) <= MaxLen
            /\ times' = a.t
            /\ values' = a.v
            /\ result' = Res("append", TRUE, x, a)
    /\ UNCHANGED <<now, qstate, ttl, full_time>>
    /\ UNCHANGED wvars
    /\ UNCHANGED xvars

QSpan ==
    /\ qstate = "ok"
    /\ LET c == Cleanup(times, values, now, ttl)
       IN  /\ times' = c.t
           /\ values' = c.v
           /\ result' = IF SpanRaises(c.v)
                        THEN Res("span", FALSE, 0, c)
                        ELSE Res("span", TRUE, SpanValue(c.v), c)
    /\ UNCHANGED <<now, qstate, ttl, full_time>>
    /\ UNCHANGED wvars
    /\ UNCHANGED xvars

QIsFull ==
    /\ qstate = "ok"
    /\ LET c == Cleanup(times, values, now, ttl)
       IN  /\ times' = c.t
           /\ values' = c.v
           /\ result' = Res("is_full", TRUE, IF IsFullValue(c.t, full_time) THEN 1 ELSE 0, c)
    /\ UNCHANGED <<now, qstate, ttl, full_time>>
    /\ UNCHANGED wvars
    /\ UNCHANGED xvars

QGetData ==
    /\ qstate = "ok"
    /\ LET c == Cleanup(times, values, now, ttl)
       IN  /\ times' = c.t
           /\ values' = c.v
           /\ result' = Res("get_data", TRUE, 0, c)
    /\ UNCHANGED <<now, qstate, ttl, full_time>>
    /\ UNCHANGED wvars
    /\ UNCHANGED xvars

QClear ==
    /\ qstate = "ok"
    /\ times' = <<>>
    /\ values' = <<>>
    /\ result' = Res("clear", TRUE, 0, [t |-> <<>>, v |-> <<>>])
    /\ UNCHANGED <<now, qstate, ttl, full_time>>
    /\ UNCHANGED wvars
    /\ UNCHANGED xvars

NextQ ==
    \/ Construct
    \/ Tick
    \/ QAppend
    \/ QSpan
    \/ QIsFull
    \/ QGetData
    \/ QClear

SpecQ == InitQ /\ [][NextQ]_vars

\* ------------------------------------------------------ BackgroundWorker
\* Thread.is_alive(): started and not yet finished
IsAlive(t) == tpc[t] \notin {"none", "created", "done"}

\* past the loop test of _run and not yet back at it
InLoop(t) == tpc[t] \in {"body", "reading", "append", "except", "wait", "clear"}

StartPcs == {"s_if", "s_alive", "s_new", "s_start"}
StopPcs == {"p_flag", "p_wake", "p_if", "p_join0", "p_join"}

\* How the owner of a worker uses it: TemperatureController.__init__ starts the
\* poller before anyone else holds it, __enter__ creates and starts the plotter
\* in one thread. With serial, a start() call overlaps no other call.
StartApart(c) == serial => \A d \in Callers : cpc[d] = "idle"
StopApart(c) == serial => \A d \in Callers : cpc[d] \notin StartPcs

\* a thread calls start()
CallStart(c) ==
    /\ cpc[c] = "idle"
    /\ ncalls < MaxCalls
    /\ StartApart(c)
    /\ cpc' = [cpc EXCEPT ![c] = "s_if"]
    /\ ncalls' = ncalls + 1
    /\ UNCHANGED <<stop_flag, wakeup, thread, nthreads, tpc, tval, cthr, serial, g>>
    /\ UNCHANGED qvars
    /\ UNCHANGED xvars

\* start(): `if self._thread`
StartIf(c) ==
    /\ cpc[c] = "s_if"
    /\ cpc' = [cpc EXCEPT ![c] = IF thread = 0 THEN "s_new" ELSE "s_alive"]
    /\ UNCHANGED <<stop_flag, wakeup, thread, nthreads, tpc, tval, cthr, ncalls, serial, g>>
    /\ UNCHANGED qvars
    /\ UNCHANGED xvars

\* start(): `... and self._thread.is_alive(): return`
StartAlive(c) ==
    /\ cpc[c] = "s_alive"
    /\ cpc' = [cpc EXCEPT ![c] = IF IsAlive(thread) THEN "idle" ELSE "s_new"]
    /\ UNCHANGED <<stop_flag, wakeup, thread, nthreads, tpc, tval, cthr, ncalls, serial, g>>
    /\ UNCHANGED qvars
    /\ UNCHANGED xvars

\* start(): `self._thread = threading.Thread(target=self._run, daemon=True)`
StartNew(c) ==
    /\ cpc[c] = "s_new"
    /\ nthreads' = nthreads + 1
    /\ tpc' = [tpc EXCEPT ![nthreads + 1] = "created"]
    /\ thread' = nthreads + 1
    /\ cpc' = [cpc EXCEPT ![c] = "s_start"]
    /\ UNCHANGED <<stop_flag, wakeup, tval, cthr, ncalls, serial, g>>
    /\ UNCHANGED qvars
    /\ UNCHANGED xvars

\* start(): `self._thread.start()`; Thread.start() raises RuntimeError on a
\* Thread object that was started before
StartThread(c) ==
    /\ cpc[c] = "s_start"
    /\ IF tpc[thread] = "created"
       THEN /\ tpc' = [tpc EXCEPT ![thread] = "check"]
            /\ cpc' = [cpc EXCEPT ![c] = "idle"]
            /\ g' = g
       ELSE /\ tpc' = tpc
            /\ cpc' = [cpc EXCEPT ![c] = "raised"]
            /\ g' = [g EXCEPT !.start_raised = TRUE]
    /\ UNCHANGED <<stop_flag, wakeup, thread, nthreads, tval, cthr, ncalls, serial>>
    /\ UNCHANGED qvars
    /\ UNCHANGED xvars

\* a thread calls stop()
CallStop(c) ==
    /\ cpc[c] = "idle"
    /\ ncalls < MaxCalls
    /\ StopApart(c)
    /\ cpc' = [cpc EXCEPT ![c] = "p_flag"]
    /\ ncalls' = ncalls + 1
    /\ UNCHANGED <<stop_flag, wakeup, thread, nthreads, tpc, tval, cthr, serial, g>>
    /\ UNCHANGED qvars
    /\ UNCHANGED xvars

\* stop(): `self._stop_flag.set()`
StopSetFlag(c) ==
    /\ cpc[c] = "p_flag"
    /\ stop_flag' = TRUE
    /\ cpc' = [cpc EXCEPT ![c] = "p_wake"]
    /\ UNCHANGED <<wakeup, thread, nthreads, tpc, tval, cthr, ncalls, serial, g>>
    /\ UNCHANGED qvars
    /\ UNCHANGED xvars

\* stop(): `self._wakeup.set()`
StopSetWakeMissing(c) ==
    /\ cpc[c] = "p_wake"
    /\ wakeup' = wakeup
    /\ cpc' = [cpc EXCEPT ![c] = "p_if"]
    /\ g' = [g EXCEPT !.requested = TRUE]
    /\ UNCHANGED <<stop_flag, thread, nthreads, tpc, tval, cthr, ncalls, serial>>
    /\ UNCHANGED qvars
    /\ UNCHANGED xvars
StopSetWake(c) ==
    /\ cpc[c] = "p_wake"
    /\ wakeup' = TRUE
    /\ cpc' = [cpc EXCEPT ![c] = "p_if"]
    /\ g' = [g EXCEPT !.requested = TRUE]
    /\ UNCHANGED <<stop_flag, thread, nthreads, tpc, tval, cthr, ncalls, serial>>
    /\ UNCHANGED qvars
    /\ UNCHANGED xvars

\* stop(): `if self._thread:`, and the return when it is None
StopIf(c) ==
    /\ cpc[c] = "p_if"
    /\ cpc' = [cpc EXCEPT ![c] = IF thread = 0 THEN "idle" ELSE "p_join0"]
    /\ g' = IF thread = 0
            THEN [g EXCEPT !.stops = @ + 1,
                           !.stop_left_running = @ \/ \E t \in Threads : InLoop(t)]
            ELSE g
    /\ UNCHANGED <<stop_flag, wakeup, thread, nthreads, tpc, tval, cthr, ncalls, serial>>
    /\ UNCHANGED qvars
    /\ UNCHANGED xvars

\* Thread.join() raises RuntimeError on a Thread object that was not started
JoinRaisesUnlessAlive(t) == ~IsAlive(t)
JoinRaises(t) == tpc[t] = "created"

\* stop(): `self._thread.join()` is entered
StopJoinBegin(c) ==
    /\ cpc[c] = "p_join0"
    /\ IF JoinRaises(thread)
       THEN /\ cpc' = [cpc EXCEPT ![c] = "raised"]
            /\ cthr' = cthr
            /\ g' = [g EXCEPT !.stop_raised = TRUE]
       ELSE /\ cpc' = [cpc EXCEPT ![c] = "p_join"]
            /\ cthr' = [cthr EXCEPT ![c] = thread]
            /\ g' = g
    /\ UNCHANGED <<stop_flag, wakeup, thread, nthreads, tpc, tval, ncalls, serial>>
    /\ UNCHANGED qvars
    /\ UNCHANGED xvars

\* stop(): join() returns once the joined thread has finished, and stop() returns
StopJoinEnd(c) ==
    /\ cpc[c] = "p_join"
    /\ tpc[cthr[c]] = "done"
    /\ cpc' = [cpc EXCEPT ![c] = "idle"]
    /\ g' = [g EXCEPT !.stops = @ + 1,
                      !.stop_left_running = @ \/ \E t \in Threads : InLoop(t)]
    /\ UNCHANGED <<stop_flag, wakeup, thread, nthreads, tpc, tval, cthr, ncalls, serial>>
    /\ UNCHANGED qvars
    /\ UNCHANGED xvars

\* ----------------------------------------------- TemperaturePoller._run
\* `while not self._stop_flag.is_set():`
LoopRunsForever(flag) == TRUE
LoopRuns(flag) == ~flag

LoopCheck(t) ==
    /\ tpc[t] = "check"
    /\ IF LoopRuns(stop_flag)
       THEN /\ g.begun < MaxReads
            /\ tpc' = [tpc EXCEPT ![t] = "body"]
            /\ g' = [g EXCEPT !.begun = @ + 1]
       ELSE /\ tpc' = [tpc EXCEPT ![t] = "done"]
            /\ g' = g
    /\ UNCHANGED <<stop_flag, wakeup, thread, nthreads, tval, cpc, cthr, ncalls, serial>>
    /\ UNCHANGED qvars
    /\ UNCHANGED xvars

\* `val = self._sensor_read()` is called
ReadBegin(t) ==
    /\ tpc[t] = "body"
    /\ tpc' = [tpc EXCEPT ![t] = "reading"]
    /\ g' = [g EXCEPT !.late_reads = @ + (IF stop_flag THEN 1 ELSE 0)]
    /\ UNCHANGED <<stop_flag, wakeup, thread, nthreads, tval, cpc, cthr, ncalls, serial>>
    /\ UNCHANGED qvars
    /\ UNCHANGED xvars

\* the sensor read returns a value
ReadReturn(t) ==
    /\ tpc[t] = "reading"
    /\ \E x \in SensorValues : tval' = [tval EXCEPT ![t] = x]
    /\ tpc' = [tpc EXCEPT ![t] = "append"]
    /\ UNCHANGED <<stop_flag, wakeup, thread, nthreads, cpc, cthr, ncalls, serial, g>>
    /\ UNCHANGED qvars
    /\ UNCHANGED xvars

\* the sensor read raises: `except Exception as e:` catches it
ReadFailEscapes(t) ==
    /\ tpc[t] = "reading"
    /\ tpc' = [tpc EXCEPT ![t] = "done"]
    /\ g' = [g EXCEPT !.failed = @ + 1]
    /\ UNCHANGED <<stop_flag, wakeup, thread, nthreads, tval, cpc, cthr, ncalls, serial>>
    /\ UNCHANGED qvars
    /\ UNCHANGED xvars
ReadFail(t) ==
    /\ tpc[t] = "reading"
    /\ tpc' = [tpc EXCEPT ![t] = "except"]
    /\ g' = [g EXCEPT !.failed = @ + 1]
    /\ UNCHANGED <<stop_flag, wakeup, thread, nthreads, tval, cpc, cthr, ncalls, serial>>
    /\ UNCHANGED qvars
    /\ UNCHANGED xvars

\* `self._queue.append(val)`
DoAppend(t) ==
    /\ tpc[t] = "append"
    /\ LET a == AppendQ(times, values, now, ttl, tval[t])
       IN  /\ times' = a.t
           /\ values' = a.v
    /\ tpc' = [tpc EXCEPT ![t] = "wait"]
    /\ g' = [g EXCEPT !.appended = @ + 1, !.late_append = @ \/ g.stops > 0]
    /\ UNCHANGED <<stop_flag, wakeup, thread, nthreads, tval, cpc, cthr, ncalls, serial>>
    /\ UNCHANGED <<now, qstate, ttl, full_time, result>>
    /\ UNCHANGED xvars

\* `print(f"Polling error: {e}")`
Report(t) ==
    /\ tpc[t] = "except"
    /\ tpc' = [tpc EXCEPT ![t] = "wait"]
    /\ g' = [g EXCEPT !.reported = @ + 1]
    /\ UNCHANGED <<stop_flag, wakeup, thread, nthreads, tval, cpc, cthr, ncalls, serial>>
    /\ UNCHANGED qvars
    /\ UNCHANGED xvars

\* _wait(): `self._wakeup.wait(interval)` returns at once, the event being set
WaitWoken(t) ==
    /\ tpc[t] = "wait"
    /\ wakeup
    /\ tpc' = [tpc EXCEPT ![t] = "clear"]
    /\ UNCHANGED <<stop_flag, wakeup, thread, nthreads, tval, cpc, cthr, ncalls, serial, g>>
    /\ UNCHANGED qvars
    /\ UNCHANGED xvars

\* _wait(): `self._wakeup.wait(interval)` returns after the interval
WaitTimeout(t) ==
    /\ tpc[t] = "wait"
    /\ ~wakeup
    /\ tpc' = [tpc EXCEPT ![t] = "clear"]
    /\ UNCHANGED <<stop_flag, wakeup, thread, nthreads, tval, cpc, cthr, ncalls, serial, g>>
    /\ UNCHANGED qvars
    /\ UNCHANGED xvars

\* _wait(): `self._wakeup.clear()`
ClearWake(t) ==
    /\ tpc[t] = "clear"
    /\ wakeup' = FALSE
    /\ tpc' = [tpc EXCEPT ![t] = "check"]
    /\ UNCHANGED <<stop_flag, thread, nthreads, tval, cpc, cthr, ncalls, serial, g>>
    /\ UNCHANGED qvars
    /\ UNCHANGED xvars

CallerStep(c) ==
    \/ StartIf(c)
    \/ StartAlive(c)
    \/ StartNew(c)
    \/ StartThread(c)
    \/ StopSetFlag(c)
    \/ StopSetWake(c)
    \/ StopIf(c)
    \/ StopJoinBegin(c)
    \/ StopJoinEnd(c)

ThreadStep(t) ==
    \/ LoopCheck(t)
    \/ ReadBegin(t)
    \/ ReadReturn(t)
    \/ ReadFail(t)
    \/ DoAppend(t)
    \/ Report(t)
    \/ WaitWoken(t)
    \/ WaitTimeout(t)
    \/ ClearWake(t)

NextW ==
    \/ \E c \in Callers : CallStart(c)
    \/ \E c \in Callers : CallStop(c)
    \/ \E c \in Callers : CallerStep(c)
    \/ \E t \in Threads : ThreadStep(t)

\* a poller over a window TimedQueue(MaxTtl), as TemperatureController builds it
InitPoller ==
    /\ now = 0
    /\ qstate = "ok"
    /\ ttl = MaxTtl
    /\ full_time = EffectiveFullTime(MaxTtl, {})
    /\ times = <<>>
    /\ values = <<>>
    /\ result = NoResult
    /\ InitWorker
    /\ NoDetector
    /\ NoSession

InitW == InitPoller /\ serial = FALSE
InitS == InitPoller /\ serial = TRUE

\* start() and stop() called from any thread at any time
SpecW == InitW /\ [][NextW]_vars

\* start() kept apart from the other calls, stop() called from any thread
SpecS == InitS /\ [][NextW]_vars

\* every thread that can take a step eventually takes one; a sensor read in
\* flight eventually returns or fails
FairSpecS ==
    /\ SpecS
    /\ \A c \in Callers : WF_vars(CallerStep(c))
    /\ \A t \in Threads : WF_vars(ThreadStep(t))

\* ------------------------------------------------- claims on the window
\* the samples of (ts, vs) whose age at time n is at most tl, computed without
\* Cleanup: timestamps are non-decreasing, so they are a suffix
FreshCount(ts, n, tl) == Cardinality({i \in 1..Len(ts) : n - ts[i] <= tl})
FreshOf(s, ts, n, tl) == SubSeq(s, Len(ts) - FreshCount(ts, n, tl) + 1, Len(ts))

SetMax(S) == CHOOSE m \in S : \A x \in S : x <= m
SetMin(S) == CHOOSE m \in S : \A x \in S : m <= x
Range(s) == {s[i] : i \in 1..Len(s)}

\* C1: every sample get_data() returns has age <= ttl at the time of the
\* query, and every sample of the window that is that fresh is returned: a
\* sample appended at t is absent from a snapshot taken later than t + ttl.
C1_SnapshotOnlyFresh ==
    result.op = "get_data" =>
        /\ \A i \in 1..Len(result.rt) : result.at - result.rt[i] <= ttl
        /\ result.rt = FreshOf(result.pre_t, result.pre_t, result.at, ttl)
        /\ result.rv = FreshOf(result.pre_v, result.pre_t, result.at, ttl)

\* a snapshot from which at least two stale samples were evicted and one kept
C1_Witness ==
    /\ result.op = "get_data"
    /\ Len(result.pre_t) >= Len(result.rt) + 2
    /\ Len(result.rt) >= 1

\* C2 (as claimed): is_full() is false whenever fewer than 2 samples are
\* retained or newest - oldest < full_time, and true otherwise, for every
\* accepted window configuration.
C2_IsFullNeedsTwoSamples ==
    result.op = "is_full" =>
        ((result.val = 1) <=>
            ~(\/ Len(result.rt) < 2
              \/ result.rt[Len(result.rt)] - result.rt[1] < full_time))

\* C3: a construction whose effective full_time is >= ttl is rejected, every
\* other one is accepted, and no constructed window has full_time >= ttl.
C3_InvalidConfigRejected ==
    /\ qstate = "rejected" => full_time >= ttl
    /\ qstate = "ok" => full_time < ttl
    /\ qstate # "ok" => times = <<>> /\ values = <<>> /\ result = NoResult

\* a rejected construction
C3_Witness == qstate = "rejected" /\ full_time = ttl

\* C4: span() raises exactly when fewer than 2 samples remain after eviction,
\* otherwise returns max - min of exactly the retained values; the call leaves
\* in the window exactly the samples that were not stale, failing or not.
C4_SpanContract ==
    result.op = "span" =>
        LET kt == FreshOf(result.pre_t, result.pre_t, result.at, ttl)
            kv == FreshOf(result.pre_v, result.pre_t, result.at, ttl)
        IN  /\ times = kt
            /\ values = kv
            /\ Len(kv) < 2 => ~result.ok
            /\ Len(kv) >= 2 =>
                 /\ result.ok
                 /\ result.val = SetMax(Range(kv)) - SetMin(Range(kv))

\* a failing span() that evicted stale samples and kept a single fresh one
C4_Witness ==
    /\ result.op = "span"
    /\ ~result.ok
    /\ Len(result.rt) = 1
    /\ Len(result.pre_t) >= 2

\* a successful span() over distinct values after an eviction
C4_WitnessOk ==
    /\ result.op = "span"
    /\ result.ok
    /\ result.val > 0
    /\ Len(result.pre_t) > Len(result.rt)


\* ------------------------------------------------- claims on the worker
Alive == {t \in Threads : IsAlive(t)}

\* C5 (as claimed): a stop() that returns leaves no execution of the worker
\* inside its loop, and no sample is appended once a stop() has returned,
\* whatever the interleaving of start(), stop() and the loop.
C5_StopWaitsForEveryExecution ==
    /\ ~g.stop_left_running
    /\ ~g.late_append

\* C6 (as claimed): whatever the start() calls, sequential or concurrent, at
\* most one execution of the loop is alive.
C6_AtMostOneExecution == Cardinality(Alive) <= 1

\* C7: once a stop() has set both events, a worker that is in its wait finds
\* the wake-up event set, so the wait returns at once; and at most one sensor
\* read is begun after the stop flag was set.
C7_NoFullWaitAfterStop ==
    /\ g.requested => \A t \in Threads : tpc[t] = "wait" => wakeup
    /\ g.late_reads <= 1

\* the stop request arrived between the loop test and the read, and the worker
\* has reached its wait after it
C7_Witness ==
    /\ g.requested
    /\ g.late_reads = 1
    /\ \E t \in Threads : tpc[t] = "wait"

\* C8: a failed read ends no loop (an execution ends only with the stop flag
\* set), appends nothing (every read begun is in flight, failed, or appended
\* exactly once, and the window holds exactly the appended samples) and is
\* reported once.
C8_FailedReadKeepsLoop ==
    /\ \A t \in Threads : tpc[t] = "done" => stop_flag
    /\ g.appended + g.failed
         + Cardinality({t \in Threads : tpc[t] \in {"body", "reading", "append"}}) = g.begun
    /\ g.reported + Cardinality({t \in Threads : tpc[t] = "except"}) = g.failed
    /\ Len(values) = g.appended
    /\ Len(times) = g.appended

\* the one execution has reported a failure and its next read has returned
C8_Witness ==
    /\ nthreads = 1
    /\ g.reported = 1
    /\ g.appended = 0
    /\ tpc[1] = "append"

\* C9: a stop() in progress while a sensor read is in flight leads to a state
\* in which no execution of the loop is alive and that stop() has returned.
C9_StopDuringReadTerminates ==
    \A c \in Callers :
        (cpc[c] \in StopPcs /\ \E t \in Threads : tpc[t] = "reading")
            ~> (Alive = {} /\ cpc[c] = "idle")

\* a stop() blocked in join() on an execution whose read is in flight
C9_Witness == \E c \in Callers : cpc[c] = "p_join" /\ tpc[cthr[c]] = "reading"

C10_WitnessNeverStarted == g.stops >= 1 /\ nthreads = 0 /\ thread = 0

\* ------------------------------------------------- the stability detector
\* the stability_kelvin values a detector is built with
Tolerances == 0..MaxVal

\* ttl of the additional queue (plot_window), shorter than the stability window
PlotTtl == MaxTtl

RECURSIVE SumSeq(_)
SumSeq(s) == IF s = <<>> THEN 0 ELSE Head(s) + SumSeq(Tail(s))

Abs(a) == IF a < 0 THEN 0 - a ELSE a

LastN(s, n) == SubSeq(s, Len(s) - n + 1, Len(s))

\* t_secs: seconds since the first retained sample
Offsets(ts) == [i \in 1..Len(ts) |-> ts[i] - ts[1]]

\* curve_fit needs at least as many points as parameters (k, b)
FitRaises(x) == Len(x) < 2

\* _fit_linear in exact arithmetic.  The least-squares line is k = kn / kd and
\* b = bn / (n * kd); predictions and residuals are kept over the common
\* denominator q = n * kd.  r2_score is 1 - SS_res / SS_tot; when SS_tot is 0
\* (all y equal) it is 1.0 if SS_res is 0 and 0.0 otherwise.  With all y equal
\* the residual of the floating-point fit is 0 only if the fit reproduces
\* every sample bit for bit: exact says whether it did.
FitLinear(x, y, exact) ==
    LET n == Len(x)
        sx == SumSeq(x)
        sy == SumSeq(y)
        sxx == SumSeq([i \in 1..n |-> x[i] * x[i]])
        sxy == SumSeq([i \in 1..n |-> x[i] * y[i]])
        kn == n * sxy - sx * sy
        kd == n * sxx - sx * sx
        bn == kd * sy - kn * sx
        q == n * kd
        res == SumSeq([i \in 1..n |-> (q * y[i] - (n * kn * x[i] + bn)) * (q * y[i] - (n * kn * x[i] + bn))])
        tot == SumSeq([i \in 1..n |-> (n * y[i] - sy) * (n * y[i] - sy)])
    IN  IF tot = 0
        THEN [kn |-> kn, kd |-> kd, r2n |-> IF res = 0 /\ exact THEN 1 ELSE 0, r2d |-> 1]
        ELSE [kn |-> kn, kd |-> kd, r2n |-> tot * q * q - res * n * n, r2d |-> tot * q * q]

\* abs(k * window_sec) <= self.stability_kelvin and r2 > 0.95
CriterionDriftOnly(f, ft, tol) == Abs(f.kn) * ft <= tol * f.kd
Criterion(f, ft, tol) ==
    /\ Abs(f.kn) * ft <= tol * f.kd
    /\ 20 * f.r2n > 19 * f.r2d

\* self._stable_start = datetime.now() - self._queue.full_time
StableStartNow(n, ft) == {n}
StableStart(n, ft) == {n - ft}

\* TimedQueue.clear on one of the two deques
ClearedKeeps(s) == s
Cleared(s) == <<>>

\* float('nan'), a reading outside the sensor's values
NaN == 0 - 1

\* curve_fit checks its data (check_finite) and raises ValueError on a NaN
HasNaN(vs) == \E i \in 1..Len(vs) : vs[i] = NaN

\* `if not self._queue.is_full(): return` leaves the event as it is
StableWhenNotFull(ev) == TRUE
KeptWhenNotFull(ev) == ev

\* _evaluate_stability on the window (ts, vs) with the event ev and the start st
EvaluateStability(ts, vs, ev, st, n, tl, ft, tol, exact) ==
    LET c == Cleanup(ts, vs, n, tl)
        same == [event |-> ev, start |-> st, t |-> c.t, v |-> c.v]
    IN  IF ~IsFullValue(c.t, ft)
        THEN [kind |-> "not_full", event |-> KeptWhenNotFull(ev), start |-> st,
              t |-> c.t, v |-> c.v]
        ELSE IF FitRaises(Offsets(c.t)) \/ HasNaN(c.v) THEN [kind |-> "raised"] @@ same
        ELSE IF Criterion(FitLinear(Offsets(c.t), c.v, exact), ft, tol)
        THEN IF ~ev
             THEN [kind |-> "set", event |-> TRUE, start |-> StableStart(n, ft),
                   t |-> c.t, v |-> c.v]
             ELSE [kind |-> "kept"] @@ same
        ELSE IF ev
             THEN [kind |-> "cleared", event |-> FALSE, start |-> {},
                   t |-> Cleared(c.t), v |-> Cleared(c.v)]
             ELSE [kind |-> "unstable"] @@ same

Blocked(w) == wpc[w] = "blocked"

\* all samples equal: the only windows on which exact matters
Flat(vs) == \A i \in 1..Len(vs) : vs[i] = vs[1]

\* Event.set wakes every thread blocked in Event.wait
NotifiedOne(ws) == IF ws = {} THEN {} ELSE {CHOOSE w \in ws : TRUE}
Notified(ws) == ws

\* one iteration of StableTemperaturePoller._run with a sensor that returns
\* one of readings: read the sensor, append to the stability queue and to the
\* additional queue, evaluate; an exception of the read or of the evaluation
\* is caught and reported
Poll(readings) ==
    /\ dg.samples < MaxPolls
    /\ \E ok \in BOOLEAN :
        IF ~ok
        THEN /\ dg' = [dg EXCEPT !.kind = "read_failed", !.exact = FALSE, !.last = 0]
             /\ UNCHANGED <<times, values, ptimes, pvalues, sids, stable_event,
                            stable_start, wpc>>
        ELSE \E x \in readings :
             \E exact \in IF Flat(AppendQ(times, values, now, ttl, x).v)
                          THEN BOOLEAN ELSE {FALSE} :
             LET a == AppendQ(times, values, now, ttl, x)
                 pa == AppendQ(ptimes, pvalues, now, PlotTtl, x)
                 e == EvaluateStability(a.t, a.v, stable_event, stable_start, now,
                                        ttl, full_time, stability_kelvin, exact)
                 waiting == {w \in Waiters : Blocked(w)}
             IN  /\ times' = e.t
                 /\ values' = e.v
                 /\ ptimes' = pa.t
                 /\ pvalues' = pa.v
                 /\ sids' = LastN(Append(sids, dg.samples + 1), Len(e.t))
                 /\ stable_event' = e.event
                 /\ stable_start' = e.start
                 /\ wpc' = [w \in Waiters |->
                               IF e.kind = "set" /\ w \in Notified(waiting)
                               THEN "woken" ELSE wpc[w]]
                 /\ dg' = [dg EXCEPT
                       !.samples = @ + 1,
                       !.lost_upto = IF e.kind = "cleared" THEN dg.samples + 1 ELSE @,
                       !.seen = [w \in Waiters |-> @[w] \/ (e.kind = "set" /\ w \in waiting)],
                       !.kind = e.kind,
                       !.exact = exact,
                       !.last = x]
    /\ UNCHANGED <<now, qstate, ttl, full_time, result, stability_kelvin>>
    /\ UNCHANGED wvars
    /\ UNCHANGED <<pq, bf>>
    /\ UNCHANGED kvars

\* the sensor returns a temperature
PollStable == Poll(SensorValues)

\* the sensor returns NaN
PollNaN == Poll({NaN})

\* self._stable_event.wait(timeout) returned signaled: raise TimeoutError?
WaitForStabilityNeverRaises(signaled) == FALSE
WaitForStabilityRaises(signaled) == ~signaled

\* wait_for_stability(timeout) called with a finite timeout: Event.wait
\* returns at once when the event is set, else the caller blocks
WaitCall(w) ==
    /\ wpc[w] = "idle"
    /\ wpc' = [wpc EXCEPT ![w] = IF stable_event THEN "returned" ELSE "blocked"]
    /\ dg' = [dg EXCEPT !.seen[w] = stable_event]
    /\ UNCHANGED <<stability_kelvin, stable_event, stable_start, ptimes, pvalues, sids>>
    /\ UNCHANGED qvars
    /\ UNCHANGED wvars
    /\ UNCHANGED <<pq, bf>>
    /\ UNCHANGED kvars

\* a notified caller leaves Event.wait with True
WaitNotified(w) ==
    /\ wpc[w] = "woken"
    /\ wpc' = [wpc EXCEPT ![w] = IF WaitForStabilityRaises(TRUE) THEN "raised" ELSE "returned"]
    /\ UNCHANGED <<stability_kelvin, stable_event, stable_start, ptimes, pvalues, sids, dg>>
    /\ UNCHANGED qvars
    /\ UNCHANGED wvars
    /\ UNCHANGED <<pq, bf>>
    /\ UNCHANGED kvars

\* the timeout of a blocked caller expires: Event.wait returns False
WaitExpire(w) ==
    /\ Blocked(w)
    /\ wpc' = [wpc EXCEPT ![w] = IF WaitForStabilityRaises(FALSE) THEN "raised" ELSE "returned"]
    /\ UNCHANGED <<stability_kelvin, stable_event, stable_start, ptimes, pvalues, sids, dg>>
    /\ UNCHANGED qvars
    /\ UNCHANGED wvars
    /\ UNCHANGED <<pq, bf>>
    /\ UNCHANGED kvars

\* the caller takes the result or the TimeoutError and goes on
WaitLeave(w) ==
    /\ wpc[w] \in {"returned", "raised"}
    /\ wpc' = [wpc EXCEPT ![w] = "idle"]
    /\ dg' = [dg EXCEPT !.seen[w] = FALSE]
    /\ UNCHANGED <<stability_kelvin, stable_event, stable_start, ptimes, pvalues, sids>>
    /\ UNCHANGED qvars
    /\ UNCHANGED wvars
    /\ UNCHANGED <<pq, bf>>
    /\ UNCHANGED kvars

NextD ==
    \/ Tick
    \/ PollStable

NextV ==
    \/ Tick
    \/ PollStable
    \/ \E w \in Waiters : WaitCall(w)
    \/ \E w \in Waiters : WaitNotified(w)
    \/ \E w \in Waiters : WaitExpire(w)
    \/ \E w \in Waiters : WaitLeave(w)

\* a running detector over a window TimedQueue(MaxTtl + 1), whose full_time
\* MaxTtl + 1 - Minute is positive
InitDetector ==
    /\ now = 0
    /\ qstate = "ok"
    /\ ttl = MaxTtl + 1
    /\ full_time = EffectiveFullTime(MaxTtl + 1, {})
    /\ times = <<>>
    /\ values = <<>>
    /\ result = NoResult
    /\ InitWorker
    /\ serial = TRUE
    /\ NoSession

InitD == InitDetector /\ \E tol \in Tolerances : InitStable(tol)
InitV == InitDetector /\ InitStable(MaxVal)

\* the detector loop alone, with any stability_kelvin
SpecD == InitD /\ [][NextD]_vars

\* the detector loop with a sensor that also returns NaN
NextN ==
    \/ Tick
    \/ PollStable
    \/ PollNaN

SpecN == InitD /\ [][NextN]_vars

\* the detector loop and the threads that wait for stability
SpecV == InitV /\ [][NextV]_vars

\* ----------------------------------------------- claims on the detector
RECURSIVE SumOver(_, _)
SumOver(f, S) ==
    IF S = {} THEN 0
    ELSE LET i == CHOOSE j \in S : TRUE IN f[i] + SumOver(f, S \ {i})

\* the step is one iteration of the detector loop that read a sample
PollTook == dg'.samples = dg.samples + 1

\* the iteration read a value and evaluated a full window
Evaluated(kind) == kind \in {"set", "kept", "cleared", "unstable"}

\* the window the iteration evaluates: the retained samples and the one read
EvalTimes == AppendQ(times, values, now, ttl, dg'.last).t
EvalValues == AppendQ(times, values, now, ttl, dg'.last).v

\* the least-squares line through (ts, vs): slope num / den, and the
\* coefficient of determination num * num / (den * tot) when tot > 0
LsqNum(ts, vs) ==
    LET I == 1..Len(ts)
    IN  Len(ts) * SumOver([i \in I |-> ts[i] * vs[i]], I)
            - SumOver([i \in I |-> ts[i]], I) * SumOver([i \in I |-> vs[i]], I)
LsqDen(ts) ==
    LET I == 1..Len(ts)
    IN  Len(ts) * SumOver([i \in I |-> ts[i] * ts[i]], I)
            - SumOver([i \in I |-> ts[i]], I) * SumOver([i \in I |-> ts[i]], I)
LsqTot(vs) ==
    LET I == 1..Len(vs)
    IN  Len(vs) * SumOver([i \in I |-> vs[i] * vs[i]], I)
            - SumOver([i \in I |-> vs[i]], I) * SumOver([i \in I |-> vs[i]], I)

\* |k| * full_time <= stability_tolerance
DriftWithin(ts, vs) == Abs(LsqNum(ts, vs)) * full_time <= stability_kelvin * LsqDen(ts)

\* R^2 > 0.95; for a constant signal R^2 is what the fit reported
R2High(ts, vs, exact) ==
    IF LsqTot(vs) = 0 THEN exact
    ELSE 20 * LsqNum(ts, vs) * LsqNum(ts, vs) > 19 * LsqDen(ts) * LsqTot(vs)

\* C11: after every evaluation performed on a full stability window the
\* detector is STABLE if and only if |k| * full_time <= stability_tolerance
\* and R^2 > 0.95 for the least-squares line through the retained samples; so
\* a linearly increasing signal whose drift exceeds the tolerance never makes
\* the detector STABLE.
C11_StableIffCriterion ==
    [][(PollTook /\ Evaluated(dg'.kind)) =>
          (stable_event' <=> (DriftWithin(EvalTimes, EvalValues)
                              /\ R2High(EvalTimes, EvalValues, dg'.exact)))]_vars

\* a full window holding a strictly increasing line was evaluated and the
\* detector is not STABLE
C11_Witness ==
    /\ dg.kind = "unstable"
    /\ Len(values) = 2
    /\ values[1] < values[2]
    /\ times[1] < times[2]
    /\ ~stable_event

\* C12: on each transition from UNSTABLE to STABLE stable_since becomes the
\* time of the transition minus full_time and the signal is set; an
\* evaluation that finds the detector STABLE and leaves it STABLE leaves
\* stable_since unchanged.
C12_StableSinceBackdated ==
    /\ [](stable_event => stable_start # {})
    /\ [][PollTook =>
            /\ (~stable_event /\ stable_event') => stable_start' = {now' - full_time}
            /\ (stable_event /\ stable_event') => stable_start' = stable_start]_vars

\* the detector became STABLE earlier and a later evaluation kept it STABLE
C12_Witness ==
    /\ dg.kind = "kept"
    /\ stable_event
    /\ stable_start # {now - full_time}

\* C13: when an evaluation finds the criterion violated while the detector is
\* STABLE, the detector becomes UNSTABLE, stable_since becomes unset and the
\* stability window is emptied: no sample recorded before the loss is in the
\* stability window afterwards.
C13_LossEmptiesWindow ==
    /\ [](Len(sids) = Len(times) /\ \A i \in 1..Len(sids) : sids[i] > dg.lost_upto)
    /\ [][(PollTook /\ Evaluated(dg'.kind) /\ stable_event
             /\ ~(DriftWithin(EvalTimes, EvalValues)
                  /\ R2High(EvalTimes, EvalValues, dg'.exact))) =>
            /\ ~stable_event'
            /\ stable_start' = {}
            /\ times' = <<>>
            /\ values' = <<>>]_vars

\* stability was lost and the window holds samples again
C13_Witness == dg.lost_upto > 0 /\ Len(times) > 0 /\ ~stable_event

\* C14: a strictly constant signal over a span >= full_time makes the detector
\* STABLE: once a full window of equal samples has been evaluated the
\* detector is STABLE.
C14_ConstantSignalStable ==
    (/\ dg.kind \in {"set", "kept", "unstable"}
     /\ IsFullValue(times, full_time)
     /\ \A i \in 1..Len(values) : values[i] = values[1]) => stable_event

\* ------------------------------------------------ claims on the waiters
\* C15: wait_for_stability with a finite timeout ends with the timeout error
\* when the detector was not STABLE at any moment between the call and the
\* expiry, and returns successfully only if the detector was STABLE at some
\* moment during the call.
C15_TimeoutIffNeverStable ==
    \A w \in Waiters :
        /\ wpc[w] = "returned" => dg.seen[w]
        /\ wpc[w] = "raised" => ~dg.seen[w]

\* a call that found the detector UNSTABLE has run into its timeout while
\* another call, made later, returned
C15_Witness ==
    \E w, u \in Waiters : wpc[w] = "raised" /\ wpc[u] = "returned" /\ ~stable_event

\* C16: every caller blocked in wait_for_stability when the detector becomes
\* STABLE is released by that one transition, and a blocked caller is
\* released only by a transition into STABLE or by its own timeout.
C16_TransitionReleasesAll ==
    /\ [](\A w \in Waiters :
            /\ Blocked(w) => ~dg.seen[w]
            /\ wpc[w] = "woken" => dg.seen[w])
    /\ [][\A w \in Waiters :
            (Blocked(w) /\ ~Blocked(w)') =>
                \/ (~stable_event /\ stable_event' /\ wpc'[w] = "woken")
                \/ (wpc'[w] = "raised" /\ UNCHANGED stable_event)]_vars

\* one transition has released two blocked callers at once
C16_Witness == \A w \in Waiters : wpc[w] = "woken"

\* ------------------------------- the control session and the calibrations
\* the setpoints calibrate_p is called with
Setpoints == {1}

\* entries of the heater log
Wrote(param, mode, num) == [op |-> "write", param |-> param, mode |-> mode, num |-> num]
Accepted == [op |-> "accept", param |-> "", mode |-> "", num |-> 0]
Waited == [op |-> "wait", param |-> "", mode |-> "", num |-> 0]

\* where the user thread is inside self.wait_for_stability()
WaitPcs == {"cr_wait", "cp_wait"}

\* the abstract detector: _evaluate_stability sets or clears the stable event
DetectorSets ==
    /\ ~stable_event
    /\ stable_event' = TRUE
    /\ stable_start' = StableStart(now, full_time)
    /\ kg' = [kg EXCEPT !.since = @ \/ upc \in WaitPcs]
    /\ UNCHANGED <<scanner, ctl, staged, heater, hlog, upc, cal>>
    /\ UNCHANGED <<stability_kelvin, ptimes, pvalues, sids, wpc, dg>>
    /\ UNCHANGED qvars
    /\ UNCHANGED wvars
    /\ UNCHANGED <<pq, bf>>

DetectorClears ==
    /\ stable_event
    /\ stable_event' = FALSE
    /\ stable_start' = {}
    /\ kg' = [kg EXCEPT !.since = @ \/ upc \in WaitPcs]
    /\ UNCHANGED <<scanner, ctl, staged, heater, hlog, upc, cal>>
    /\ UNCHANGED <<stability_kelvin, ptimes, pvalues, sids, wpc, dg>>
    /\ UNCHANGED qvars
    /\ UNCHANGED wvars
    /\ UNCHANGED <<pq, bf>>

\* TemperatureController.__enter__
Enter ==
    /\ upc = "out"
    /\ ~kg.raising
    /\ kg.sessions < MaxSessions
    /\ scanner' = [scanner EXCEPT !.autoscan = IF scanner.autoscan THEN FALSE ELSE @]
    /\ ctl' = [ctl EXCEPT !.at_enter = {scanner.autoscan}, !.context_active = TRUE,
                          !.plotter = TRUE]
    /\ upc' = "in"
    /\ kg' = [kg EXCEPT !.sessions = @ + 1, !.entry_autoscan = {scanner.autoscan},
                        !.exited = FALSE, !.touched = FALSE, !.done = FALSE]
    /\ UNCHANGED <<staged, heater, hlog, cal>>
    /\ UNCHANGED qvars
    /\ UNCHANGED wvars
    /\ UNCHANGED <<pq, bf>>
    /\ UNCHANGED dvars

\* the session body writes the scanner's autoscan setting
BodySetAutoscan ==
    /\ upc = "in"
    /\ ~kg.raising
    /\ \E b \in BOOLEAN : scanner' = [scanner EXCEPT !.autoscan = b]
    /\ kg' = [kg EXCEPT !.touched = TRUE]
    /\ UNCHANGED <<ctl, staged, heater, hlog, upc, cal>>
    /\ UNCHANGED qvars
    /\ UNCHANGED wvars
    /\ UNCHANGED <<pq, bf>>
    /\ UNCHANGED dvars

\* a request to the device raises (requests errors, raise_for_status) or not
MayFail == IF kg.faults < MaxFaults THEN BOOLEAN ELSE {TRUE}

\* PIDCalibrator.__exit__, reached when the body ends or raises:
\* TemperatureController.__exit__, then heater.turn_off().  Restoring
\* automatic scan is a request to the scanner: when it raises, the exception
\* leaves __exit__ before turn_off is called.
Exit ==
    /\ upc = "in"
    /\ \E ok \in IF ctl.at_enter = {TRUE} THEN MayFail ELSE {TRUE} :
        /\ scanner' = [scanner EXCEPT
                          !.autoscan = IF ctl.at_enter = {TRUE} /\ ok THEN TRUE ELSE @]
        /\ upc' = IF ok THEN "off_mode" ELSE "out"
        /\ kg' = [kg EXCEPT !.exited = TRUE, !.outside = FALSE, !.done = FALSE,
                            !.left = "none", !.pending = FALSE,
                            !.faults = IF ok THEN @ ELSE @ + 1,
                            !.raising = @ \/ ~ok,
                            !.fault_pc = IF ok THEN "none" ELSE "exit"]
    /\ ctl' = [ctl EXCEPT !.plotter = FALSE, !.context_active = FALSE]
    /\ cal' = [cal EXCEPT !.after = "out", !.ret = "out"]
    /\ hlog' = <<>>
    /\ UNCHANGED <<staged, heater>>
    /\ UNCHANGED qvars
    /\ UNCHANGED wvars
    /\ UNCHANGED <<pq, bf>>
    /\ UNCHANGED dvars

\* the first statement of each `with self.heater.write_session()` block
ScopeEntry == {"cr_mode", "cr_range", "off_mode", "cp_mode", "cp_gain", "cp_final"}

\* a heater parameter is written inside a write session: heater.<param>(val).
\* When the request raises, control passes to the session's finally clause.
Write(pc, param, val, mode, num, next, fin) ==
    /\ upc = pc
    /\ \E ok \in MayFail :
        /\ staged' = IF ok THEN [staged EXCEPT ![param] = val] ELSE staged
        /\ hlog' = IF ok THEN Append(hlog, Wrote(param, mode, num)) ELSE hlog
        /\ upc' = IF ok THEN next ELSE fin
        /\ kg' = [kg EXCEPT !.wrote_outside = @ \/ kg.outside,
                            !.faults = IF ok THEN @ ELSE @ + 1,
                            !.pending = ~ok,
                            !.fault_pc = IF ok THEN @ ELSE pc,
                            !.scope = IF pc \in ScopeEntry
                                      THEN [state |-> "open", accepts |-> 0]
                                      ELSE @]
    /\ UNCHANGED <<scanner, ctl, heater, cal>>
    /\ UNCHANGED qvars
    /\ UNCHANGED wvars
    /\ UNCHANGED <<pq, bf>>
    /\ UNCHANGED dvars

\* write_session: `try: yield  finally: self.accept()` commits when the
\* scope is left, whether the body raised or not
CommitsOnNormalExit(raised) == ~raised
CommitsOnExit(raised) == TRUE

\* the write session is left: heater.accept().  An exception of the body, or
\* of the commit itself, then leaves the procedure for its caller.
Accept(pc, next) ==
    /\ upc = pc
    /\ \E ok \in MayFail :
        /\ heater' = IF ok /\ CommitsOnExit(kg.pending) THEN staged ELSE heater
        /\ hlog' = IF ok /\ CommitsOnExit(kg.pending) THEN Append(hlog, Accepted) ELSE hlog
        /\ upc' = IF ok /\ ~kg.pending THEN next ELSE cal.ret
        /\ kg' = [kg EXCEPT !.wrote_outside = @ \/ kg.outside,
                            !.faults = IF ok THEN @ ELSE @ + 1,
                            !.pending = FALSE,
                            !.since = FALSE,
                            !.fault_pc = IF ok THEN @ ELSE pc,
                            !.left = IF ok /\ ~kg.pending THEN @ ELSE "raised",
                            !.raising = @ \/ ~ok \/ kg.pending,
                            !.outside = IF ok /\ ~kg.pending THEN @ ELSE FALSE,
                            !.scope = [state |-> "left",
                                       accepts |-> IF CommitsOnExit(kg.pending)
                                                   THEN @.accepts + 1
                                                   ELSE @.accepts]]
    /\ UNCHANGED <<scanner, ctl, staged, cal>>
    /\ UNCHANGED qvars
    /\ UNCHANGED wvars
    /\ UNCHANGED <<pq, bf>>
    /\ UNCHANGED dvars

\* the timeout the calibrations pass to wait_for_stability: none
NoTimeout == {}

\* Event.wait(timeout) returns False only when a timeout was given
Expires(timeout) == timeout # {}

\* Event.wait returns True when the flag is set, whether it was set before
\* the call or during it
EdgeTriggered(ev, changed) == ev /\ changed
LevelTriggered(ev, changed) == ev

\* self.wait_for_stability(): returns once the event is set, or raises
\* TimeoutError when its timeout expires
WaitStable(pc) ==
    /\ upc = pc
    /\ LevelTriggered(stable_event, kg.since) \/ Expires(NoTimeout)

\* a calibration procedure is called, inside or outside a session.  An
\* exception that left a procedure is not caught: it ends the session body,
\* and after __exit__ the run.
Call(fn, first) ==
    /\ upc \in {"out", "in"}
    /\ ~kg.raising
    /\ kg.procs < MaxProcs
    /\ upc' = first
    /\ hlog' = <<>>
    /\ kg' = [kg EXCEPT !.procs = @ + 1, !.outside = ~ctl.context_active,
                        !.proc = fn, !.done = FALSE, !.exited = FALSE,
                        !.left = "none", !.pending = FALSE, !.fault_pc = "none"]
    /\ UNCHANGED <<scanner, ctl, staged, heater>>
    /\ UNCHANGED qvars
    /\ UNCHANGED wvars
    /\ UNCHANGED <<pq, bf>>
    /\ UNCHANGED dvars

\* the procedure returns to the session body or to the code outside
Return(pc) ==
    /\ upc = pc
    /\ upc' = cal.ret
    /\ kg' = [kg EXCEPT !.done = TRUE, !.outside = FALSE, !.left = "returned"]
    /\ UNCHANGED <<scanner, ctl, staged, heater, hlog, cal>>
    /\ UNCHANGED qvars
    /\ UNCHANGED wvars
    /\ UNCHANGED <<pq, bf>>
    /\ UNCHANGED dvars

\* calibrate_ranges(tolerance)
CallRanges ==
    /\ Call("ranges", "cr_mode")
    /\ cal' = [NoLocals EXCEPT !.ret = upc, !.after = "cr_return"]

CrMode == Write("cr_mode", "mode", "open_loop", "open_loop", 0, "cr_manual", "cr_accept")
CrManual == Write("cr_manual", "manual_value", ManualOutput, "", ManualOutput, "cr_accept", "cr_accept")
CrAccept == Accept("cr_accept", "cr_next")

\* for r in Heater.RANGES, 'off' skipped: is there a range after range r
MoreRangesButLast(r) == r + 1 < NRanges
MoreRanges(r) == r < NRanges

CrNext ==
    /\ upc = "cr_next"
    /\ IF MoreRanges(cal.r)
       THEN /\ cal' = [cal EXCEPT !.r = @ + 1]
            /\ upc' = "cr_range"
       ELSE /\ cal' = cal
            /\ upc' = "off_mode"
    /\ UNCHANGED <<scanner, ctl, staged, heater, hlog, kg>>
    /\ UNCHANGED qvars
    /\ UNCHANGED wvars
    /\ UNCHANGED <<pq, bf>>
    /\ UNCHANGED dvars

CrRange == Write("cr_range", "range", cal.r, "", cal.r, "cr_commit", "cr_commit")
CrCommit == Accept("cr_commit", "cr_wait")

\* time.sleep(5), then wait_for_stability(): results.append(True), or on
\* TimeoutError results.append(False) and break
CrWait ==
    /\ WaitStable("cr_wait")
    /\ IF stable_event
       THEN /\ cal' = [cal EXCEPT !.results = Append(@, TRUE)]
            /\ hlog' = Append(hlog, Waited)
            /\ upc' = "cr_next"
       ELSE /\ cal' = [cal EXCEPT !.results = Append(@, FALSE)]
            /\ hlog' = hlog
            /\ upc' = "off_mode"
    /\ UNCHANGED <<scanner, ctl, staged, heater, kg>>
    /\ UNCHANGED qvars
    /\ UNCHANGED wvars
    /\ UNCHANGED <<pq, bf>>
    /\ UNCHANGED dvars

CrReturn == Return("cr_return")

\* Heater.turn_off
OffMode == Write("off_mode", "mode", "off", "off", 0, "off_range", "off_accept")
OffRange == Write("off_range", "range", 0, "", 0, "off_manual", "off_accept")
OffManual == Write("off_manual", "manual_value", 0, "", 0, "off_accept", "off_accept")
OffAccept == Accept("off_accept", cal.after)

\* calibrate_p(setpoint, tolerance)
CallP ==
    /\ Call("p", "cp_mode")
    /\ \E sp \in Setpoints : cal' = [NoLocals EXCEPT !.ret = upc, !.setpoint = sp]

CpMode == Write("cp_mode", "mode", "closed_loop", "closed_loop", 0, "cp_setpoint", "cp_accept")
CpSetpoint == Write("cp_setpoint", "setpoint", cal.setpoint, "", cal.setpoint, "cp_accept", "cp_accept")
CpAccept == Accept("cp_accept", "cp_init")

\* p = 5.0
CpInit ==
    /\ upc = "cp_init"
    /\ cal' = [cal EXCEPT !.p = FirstGain]
    /\ upc' = "cp_loop"
    /\ UNCHANGED <<scanner, ctl, staged, heater, hlog, kg>>
    /\ UNCHANGED qvars
    /\ UNCHANGED wvars
    /\ UNCHANGED <<pq, bf>>
    /\ UNCHANGED dvars

\* while p < 1e4
CpLoop ==
    /\ upc = "cp_loop"
    /\ upc' = IF cal.p < GainLimit THEN "cp_gain" ELSE "cp_clip"
    /\ UNCHANGED <<scanner, ctl, staged, heater, hlog, cal, kg>>
    /\ UNCHANGED qvars
    /\ UNCHANGED wvars
    /\ UNCHANGED <<pq, bf>>
    /\ UNCHANGED dvars

CpGain == Write("cp_gain", "p", cal.p, "", cal.p, "cp_commit", "cp_commit")
CpCommit == Accept("cp_commit", "cp_wait")

\* wait_for_stability(): break, or on TimeoutError p *= 2
CpWait ==
    /\ WaitStable("cp_wait")
    /\ IF stable_event
       THEN /\ cal' = cal
            /\ hlog' = Append(hlog, Waited)
            /\ upc' = "cp_clip"
       ELSE /\ cal' = [cal EXCEPT !.p = @ * 2]
            /\ hlog' = hlog
            /\ upc' = "cp_loop"
    /\ UNCHANGED <<scanner, ctl, staged, heater, kg>>
    /\ UNCHANGED qvars
    /\ UNCHANGED wvars
    /\ UNCHANGED <<pq, bf>>
    /\ UNCHANGED dvars

\* np.clip(p * 0.6, 0, 1e4)
Clip(x, lo, hi) == IF x < lo THEN lo ELSE IF x > hi THEN hi ELSE x

CpClip ==
    /\ upc = "cp_clip"
    /\ cal' = [cal EXCEPT !.p = Clip((@ * 6) \div 10, 0, GainLimit)]
    /\ upc' = "cp_final"
    /\ UNCHANGED <<scanner, ctl, staged, heater, hlog, kg>>
    /\ UNCHANGED qvars
    /\ UNCHANGED wvars
    /\ UNCHANGED <<pq, bf>>
    /\ UNCHANGED dvars

CpFinal == Write("cp_final", "p", cal.p, "", cal.p, "cp_finish", "cp_finish")
CpFinish == Accept("cp_finish", "cp_return")
CpReturn == Return("cp_return")

NextC ==
    \/ DetectorSets
    \/ DetectorClears
    \/ Enter
    \/ BodySetAutoscan
    \/ Exit
    \/ CallRanges
    \/ CrMode
    \/ CrManual
    \/ CrAccept
    \/ CrNext
    \/ CrRange
    \/ CrCommit
    \/ CrWait
    \/ CrReturn
    \/ OffMode
    \/ OffRange
    \/ OffManual
    \/ OffAccept
    \/ CallP
    \/ CpMode
    \/ CpSetpoint
    \/ CpAccept
    \/ CpInit
    \/ CpLoop
    \/ CpGain
    \/ CpCommit
    \/ CpWait
    \/ CpClip
    \/ CpFinal
    \/ CpFinish
    \/ CpReturn

\* a PIDCalibrator over a scanner in any state, for any target sensor, with
\* the heater off and the detector running
InitC ==
    /\ now = 0
    /\ qstate = "ok"
    /\ ttl = MaxTtl + 1
    /\ full_time = EffectiveFullTime(MaxTtl + 1, {})
    /\ times = <<>>
    /\ values = <<>>
    /\ result = NoResult
    /\ InitWorker
    /\ serial = TRUE
    /\ InitStable(MaxVal)
    /\ \E a \in BOOLEAN, ch \in Channels, tgt \in Channels :
        InitSession([autoscan |-> a, channel |-> ch], tgt, HeaterOff)

SpecC == InitC /\ [][NextC]_vars

\* the steps of the thread that runs a calibration procedure or turn_off
ProcStep ==
    \/ CrMode \/ CrManual \/ CrAccept \/ CrNext \/ CrRange \/ CrCommit \/ CrWait \/ CrReturn
    \/ OffMode \/ OffRange \/ OffManual \/ OffAccept
    \/ CpMode \/ CpSetpoint \/ CpAccept \/ CpInit \/ CpLoop \/ CpGain \/ CpCommit
    \/ CpWait \/ CpClip \/ CpFinal \/ CpFinish \/ CpReturn

\* the calling thread keeps running; nothing makes the detector become stable
FairSpecC == SpecC /\ WF_vars(ProcStep)

\* --------------------------- claims on the session and the calibrations
\* C17: on entering a control session the controller records the scanner's
\* automatic-scan setting, disables automatic scan and selects the target
\* channel, so that in the session, until the body changes the scanner,
\* automatic scan is off and the selected channel is the target sensor.
C17_EntrySelectsTarget ==
    (ctl.context_active /\ ~kg.touched) =>
        /\ ctl.at_enter = kg.entry_autoscan
        /\ ~scanner.autoscan
        /\ scanner.channel = ctl.target

\* C18: after every exit from a control session the scanner's automatic-scan
\* setting equals the setting recorded at entry, whatever the recorded value
\* was and whatever the body changed the setting to.
C18_ExitRestoresAutoscan == kg.exited => {scanner.autoscan} = kg.entry_autoscan

\* C19: calibrate_ranges and calibrate_p called with no active session issue
\* no heater write and no commit.
C19_NoWriteOutsideSession == ~kg.wrote_outside

\* the writes, commits and waits of one sweep over the ranges from r on
RECURSIVE Sweep(_)
Sweep(r) ==
    IF r > NRanges THEN <<>>
    ELSE <<Wrote("range", "", r), Accepted, Waited>> \o Sweep(r + 1)

\* C20: when every stability wait succeeds, calibrate_ranges commits open-loop
\* mode with manual output 50, then sets and commits each range other than off
\* once, in order, each followed by one stability wait, returns true for every
\* such range and leaves the heater off: mode off, range off, manual value 0.
C20_RangesSweep ==
    (kg.proc = "ranges" /\ kg.done) =>
        /\ hlog = <<Wrote("mode", "open_loop", 0), Wrote("manual_value", "", ManualOutput),
                    Accepted>>
                  \o Sweep(1)
                  \o <<Wrote("mode", "off", 0), Wrote("range", "", 0),
                       Wrote("manual_value", "", 0), Accepted>>
        /\ cal.results = [i \in Ranges |-> TRUE]
        /\ heater.mode = "off"
        /\ heater.range = 0
        /\ heater.manual_value = 0

\* calibrate_ranges, called inside a session, has returned
C20_Witness ==
    /\ kg.proc = "ranges"
    /\ kg.done
    /\ ctl.context_active
    /\ Len(cal.results) = NRanges

\* ------------------------ claims on timeouts, failures and heater safety
\* the heater is in the OFF state
HeaterIsOff == heater.mode = "off" /\ heater.range = 0 /\ heater.manual_value = 0

\* the steps of Heater.turn_off
OffSteps == {"off_mode", "off_range", "off_manual", "off_accept"}

\* C21: when the detector fails to stabilize on the n-th tested range,
\* calibrate_ranges returns n-1 trues followed by a single false, sets no
\* range after the failing one and leaves the heater off.
C21_FailedRangeEndsSweep ==
    (upc = "cr_wait") ~>
        \/ stable_event
        \/ /\ kg.proc = "ranges"
           /\ kg.left = "returned"
           /\ cal.results = [i \in 1..cal.r |-> i < cal.r]
           /\ staged.range = 0
           /\ HeaterIsOff

\* C22: calibrate_ranges forces the heater off on every way of leaving the
\* procedure, including when a heater write or a commit in the middle of
\* the sweep raises.
C22_RangesAlwaysOff ==
    (/\ ctl.context_active
     /\ kg.proc = "ranges"
     /\ kg.left \in {"returned", "raised"}
     /\ kg.fault_pc \notin OffSteps) => HeaterIsOff

\* C23: every stability wait of calibrate_ranges and calibrate_p is bounded,
\* so that with a detector that never becomes stable the wait still ends and
\* the procedure returns.
C23_WaitsBounded ==
    (upc \in {"cr_wait", "cp_wait"}) ~>
        (stable_event \/ (kg.left = "returned" /\ upc \in {"in", "out"}))

\* the trial gains p, 2p, ... up to last, each written and committed
RECURSIVE Trials(_, _)
Trials(p, last) ==
    IF p > last THEN <<>>
    ELSE <<Wrote("p", "", p), Accepted>> \o Trials(2 * p, last)

\* C24: calibrate_p commits closed-loop mode with the setpoint, then the
\* gains 5, 10, 20, ... one at a time with a stability wait after each, stops
\* at the first gain whose wait succeeds and commits 0.6 times that gain: with
\* a detector that is stable only from the gain 80 on, the gains committed are
\* 5, 10, 20, 40, 80 and then 48.
C24_GainSearch ==
    (upc = "cp_wait" /\ cal.p < 80) ~>
        \/ stable_event
        \/ /\ kg.proc = "p"
           /\ kg.left = "returned"
           /\ hlog = <<Wrote("mode", "closed_loop", 0),
                       Wrote("setpoint", "", cal.setpoint), Accepted>>
                     \o Trials(FirstGain, 80)
                     \o <<Waited, Wrote("p", "", 48), Accepted>>

\* C25: every trial gain of calibrate_p is below 1e4, the final gain lies in
\* [0, 1e4], and when every stability wait times out the search ends after
\* the trial gain 5120 with the final gain 6144.
C25_GainSearchEnds ==
    /\ [](upc = "cp_commit" => cal.p < GainLimit)
    /\ [](upc = "cp_finish" => (cal.p >= 0 /\ cal.p <= GainLimit))
    /\ (upc = "cp_wait") ~>
            \/ stable_event
            \/ (kg.proc = "p" /\ kg.left = "returned" /\ heater.p = 6144)

\* C26: after calibrate_p completes or aborts, the heater is off.
C26_GainSearchLeavesOff ==
    (ctl.context_active /\ kg.proc = "p" /\ kg.left \in {"returned", "raised"})
        => HeaterIsOff

\* C27: on every exit from a calibrator session the heater is forced off,
\* also when the base teardown (restoring automatic scan) fails.
C27_ExitAlwaysOff ==
    (kg.exited /\ upc = "out" /\ kg.fault_pc \notin OffSteps) => HeaterIsOff

\* C28: a heater write session issues exactly one commit when its scope is
\* left, whether the staged writes succeeded or one of them raised, and no
\* commit before the scope is left.
C28_OneCommitPerSession ==
    /\ [](kg.scope.state = "open" => kg.scope.accepts = 0)
    /\ [](kg.scope.state = "left" => kg.scope.accepts = 1)
    /\ [][(kg.scope.state = "open" /\ kg'.scope.state = "left")
            => (upc \in {"cr_accept", "cr_commit", "off_accept", "cp_accept",
                         "cp_commit", "cp_finish"}
                /\ (heater' = staged \/ kg'.faults > kg.faults))]_vars

\* a staged write raised, and the session was left by its commit
C28_Witness ==
    /\ kg.scope.state = "left"
    /\ kg.left = "raised"
    /\ kg.fault_pc \in {"cr_manual", "cr_range", "cp_setpoint", "cp_gain"}
    /\ kg.scope.accepts = 1
    /\ heater = staged

\* ------------------------- the plot window under the poller and the plotter
\* The StableTemperaturePoller thread appends to the plot window while the
\* TemperaturePlotter thread calls get_data on it.  TimedQueue holds no lock:
\* the threads interleave between the deque operations of its accessors.
\* A sample's value is its number in the run, so that a timestamp and a
\* value of the same sample can be told from a mixed pair.
PThreads == {"poller", "plotter"}

InitPlot ==
    [pc |-> [th \in PThreads |-> "idle"], cnow |-> [th \in PThreads |-> 0],
     snap_t |-> <<>>, snap_v |-> <<>>, snaps |-> 0, appended |-> 0, stamp |-> <<>>,
     fresh_lost |-> FALSE]

\* where a thread goes when its _cleanup is over: on in append or in get_data
AfterCleanup(th) == IF th = "poller" THEN "a_time" ELSE "g_times"

\* a step of thread th inside an accessor of the plot window
PStep(th, at, to, ts, vs) ==
    /\ pq.pc[th] = at
    /\ ptimes' = ts
    /\ pvalues' = vs
    /\ pq' = [pq EXCEPT !.pc[th] = to]
    /\ UNCHANGED <<stability_kelvin, stable_event, stable_start, sids, wpc, dg>>
    /\ UNCHANGED qvars
    /\ UNCHANGED wvars
    /\ UNCHANGED kvars
    /\ UNCHANGED bf

\* the poller calls plot_queue.append(val); the plotter calls get_data()
PCall(th) ==
    /\ pq.pc[th] = "idle"
    /\ IF th = "poller" THEN pq.appended < MaxPolls ELSE pq.snaps < MaxSnapshots
    /\ pq' = [pq EXCEPT !.pc[th] = "c_now"]
    /\ UNCHANGED dvars
    /\ UNCHANGED qvars
    /\ UNCHANGED wvars
    /\ UNCHANGED kvars
    /\ UNCHANGED bf

\* _cleanup: now = datetime.now()
CleanupNow(th) ==
    /\ pq.pc[th] = "c_now"
    /\ pq' = [pq EXCEPT !.pc[th] = "c_test", !.cnow[th] = now]
    /\ UNCHANGED dvars
    /\ UNCHANGED qvars
    /\ UNCHANGED wvars
    /\ UNCHANGED kvars
    /\ UNCHANGED bf

\* _cleanup: while self._times ...
CleanupTest(th) ==
    PStep(th, "c_test", IF ptimes # <<>> THEN "c_head" ELSE AfterCleanup(th), ptimes, pvalues)

\* _cleanup: ... and now - self._times[0] > self.ttl; IndexError on an
\* emptied deque
CleanupHead(th) ==
    PStep(th, "c_head",
          IF ptimes = <<>> THEN "raised"
          ELSE IF pq.cnow[th] - ptimes[1] > PlotTtl THEN "c_pop_t" ELSE AfterCleanup(th),
          ptimes, pvalues)

\* _cleanup: self._times.popleft()
CleanupPopTimes(th) ==
    /\ pq.pc[th] = "c_pop_t"
    /\ IF ptimes = <<>>
       THEN /\ ptimes' = ptimes
            /\ pq' = [pq EXCEPT !.pc[th] = "raised"]
       ELSE /\ ptimes' = Tail(ptimes)
            /\ pq' = [pq EXCEPT !.pc[th] = "c_pop_v",
                                !.fresh_lost = @ \/ now - ptimes[1] <= PlotTtl]
    /\ UNCHANGED <<stability_kelvin, stable_event, stable_start, pvalues, sids, wpc, dg>>
    /\ UNCHANGED qvars
    /\ UNCHANGED wvars
    /\ UNCHANGED kvars
    /\ UNCHANGED bf

\* _cleanup: self._values.popleft()
CleanupPopValues(th) ==
    IF pvalues = <<>>
    THEN PStep(th, "c_pop_v", "raised", ptimes, pvalues)
    ELSE PStep(th, "c_pop_v", "c_test", ptimes, Tail(pvalues))

\* append: self._times.append(datetime.now())
AppendTime ==
    /\ pq.pc["poller"] = "a_time"
    /\ ptimes' = Append(ptimes, now)
    /\ pq' = [pq EXCEPT !.pc["poller"] = "a_value", !.appended = @ + 1,
                        !.stamp = Append(@, now)]
    /\ UNCHANGED <<stability_kelvin, stable_event, stable_start, pvalues, sids, wpc, dg>>
    /\ UNCHANGED qvars
    /\ UNCHANGED wvars
    /\ UNCHANGED kvars
    /\ UNCHANGED bf

\* append: self._values.append(value)
AppendValue == PStep("poller", "a_value", "idle", ptimes, Append(pvalues, pq.appended))

\* get_data: np.asarray(self._times)
CopyTimes ==
    /\ pq.pc["plotter"] = "g_times"
    /\ pq' = [pq EXCEPT !.pc["plotter"] = "g_values", !.snap_t = ptimes]
    /\ UNCHANGED dvars
    /\ UNCHANGED qvars
    /\ UNCHANGED wvars
    /\ UNCHANGED kvars
    /\ UNCHANGED bf

\* get_data: np.asarray(self._values), and return
CopyValues ==
    /\ pq.pc["plotter"] = "g_values"
    /\ pq' = [pq EXCEPT !.pc["plotter"] = "idle", !.snap_v = pvalues, !.snaps = @ + 1]
    /\ UNCHANGED dvars
    /\ UNCHANGED qvars
    /\ UNCHANGED wvars
    /\ UNCHANGED kvars
    /\ UNCHANGED bf

\* StableTemperaturePoller._run catches the exception and polls on; the
\* plotter's _run does not, and its thread ends
PollerCatches == PStep("poller", "raised", "idle", ptimes, pvalues)

NextP ==
    \/ Tick
    \/ \E th \in PThreads : PCall(th)
    \/ \E th \in PThreads : CleanupNow(th)
    \/ \E th \in PThreads : CleanupTest(th)
    \/ \E th \in PThreads : CleanupHead(th)
    \/ \E th \in PThreads : CleanupPopTimes(th)
    \/ \E th \in PThreads : CleanupPopValues(th)
    \/ AppendTime
    \/ AppendValue
    \/ CopyTimes
    \/ CopyValues
    \/ PollerCatches

\* an empty plot window TimedQueue(PlotTtl), the poller and the plotter idle
InitP ==
    /\ now = 0
    /\ qstate = "ok"
    /\ ttl = PlotTtl
    /\ full_time = EffectiveFullTime(PlotTtl, {})
    /\ times = <<>>
    /\ values = <<>>
    /\ result = NoResult
    /\ InitWorker
    /\ serial = TRUE
    /\ NoDetector
    /\ scanner = <<>>
    /\ ctl = <<>>
    /\ staged = <<>>
    /\ heater = <<>>
    /\ hlog = <<>>
    /\ upc = "none"
    /\ cal = <<>>
    /\ kg = <<>>
    /\ pq = InitPlot
    /\ bf = <<>>

SpecP == InitP /\ [][NextP]_vars

\* ------------------------------------------ claims on the shared window
\* thread th is inside an accessor of the plot window
InAccessor(th) == pq.pc[th] \notin {"idle", "raised"}

\* C29: the accessors of a window are mutually exclusive: while the poller
\* thread is inside one accessor of the plot window, the plotter is inside
\* none.
C29_AccessorsExclusive == ~(InAccessor("poller") /\ InAccessor("plotter"))

\* C30: get_data returns a consistent copy of the window, also when it is
\* taken while the poller appends: as many timestamps as values, the i-th
\* timestamp and the i-th value of the same sample, timestamps in
\* non-decreasing order.
C30_SnapshotConsistent ==
    (pq.snaps > 0 /\ pq.pc["plotter"] = "idle") =>
        /\ Len(pq.snap_t) = Len(pq.snap_v)
        /\ \A i \in 1..Len(pq.snap_t) :
            /\ i <= Len(pq.snap_v) => pq.stamp[pq.snap_v[i]] = pq.snap_t[i]
            /\ i > 1 => pq.snap_t[i - 1] <= pq.snap_t[i]

C38_StopIsPermanent ==
    /\ [][stop_flag => stop_flag']_vars
    /\ [][\A t \in Threads : (stop_flag /\ ~InLoop(t)) => ~InLoop(t)']_vars
    /\ [][(stop_flag /\ \A t \in Threads : ~InLoop(t)) => UNCHANGED <<times, values>>]_vars

\* start() after stop() has created a second execution, which has ended
C38_Witness ==
    /\ stop_flag
    /\ g.stops >= 1
    /\ nthreads >= 2
    /\ tpc[2] = "done"

\* no thread is between the two deque operations of an append or an eviction
Paired == \A th \in PThreads : pq.pc[th] \notin {"c_pop_v", "a_value"}

\* C39: eviction removes only stale samples and keeps timestamps and values
\* aligned, also when the plotter (get_data) and the poller (append) run
\* _cleanup on the plot window at the same time: no sample of age <= ttl is
\* removed, and the two sequences have equal length.
C39_EvictionOnlyStale ==
    /\ ~pq.fresh_lost
    /\ Paired => Len(ptimes) = Len(pvalues)

\* --------------------------------- the stability evaluation, step by step
\* The detector thread is Thread object 1.  Between the iterations of _run it
\* is at "poll"; inside _evaluate_stability it is at one of the assignments
\* of the branch it took, and other threads see every state in between.
Detector == 1

\* the branch that sets the event writes _stable_start first
SetWritesEventFirst == "event"
SetWritesFirst == "start"

DetectorAt(pc) == tpc' = [tpc EXCEPT ![Detector] = pc]

\* _run: read the sensor, append to the queues, and _evaluate_stability up
\* to the test of the criterion and of the event
EvalBegin ==
    /\ tpc[Detector] = "poll"
    /\ dg.samples < MaxPolls
    /\ \E ok \in BOOLEAN :
        IF ~ok
        THEN /\ dg' = [dg EXCEPT !.kind = "read_failed", !.exact = FALSE, !.last = 0]
             /\ UNCHANGED <<times, values, ptimes, pvalues, tpc>>
        ELSE \E x \in SensorValues :
             \E exact \in IF Flat(AppendQ(times, values, now, ttl, x).v)
                          THEN BOOLEAN ELSE {FALSE} :
             LET a == AppendQ(times, values, now, ttl, x)
                 pa == AppendQ(ptimes, pvalues, now, PlotTtl, x)
                 c == Cleanup(a.t, a.v, now, ttl)
                 e == EvaluateStability(a.t, a.v, stable_event, stable_start, now,
                                        ttl, full_time, stability_kelvin, exact)
             IN  /\ times' = c.t
                 /\ values' = c.v
                 /\ ptimes' = pa.t
                 /\ pvalues' = pa.v
                 /\ DetectorAt(IF e.kind = "set" THEN "set_first"
                               ELSE IF e.kind = "cleared" THEN "clear_event"
                               ELSE "poll")
                 /\ dg' = [dg EXCEPT !.samples = @ + 1, !.kind = e.kind,
                                     !.exact = exact, !.last = x]
    /\ UNCHANGED <<now, qstate, ttl, full_time, result>>
    /\ UNCHANGED <<stop_flag, wakeup, thread, nthreads, tval, cpc, cthr, ncalls, serial, g>>
    /\ UNCHANGED <<stability_kelvin, stable_event, stable_start, sids, wpc>>
    /\ UNCHANGED <<pq, bf>>
    /\ UNCHANGED kvars

\* one assignment of _evaluate_stability: the event becomes ev, the start st
\* and the window (ts, vs)
EvalWrite(at, to, ev, st, ts, vs) ==
    /\ tpc[Detector] = at
    /\ DetectorAt(to)
    /\ stable_event' = ev
    /\ stable_start' = st
    /\ times' = ts
    /\ values' = vs
    /\ UNCHANGED <<now, qstate, ttl, full_time, result>>
    /\ UNCHANGED <<stop_flag, wakeup, thread, nthreads, tval, cpc, cthr, ncalls, serial, g>>
    /\ UNCHANGED <<stability_kelvin, ptimes, pvalues, sids, wpc, dg>>
    /\ UNCHANGED <<pq, bf>>
    /\ UNCHANGED kvars

\* self._stable_start = datetime.now() - self._queue.full_time
\* self._stable_event.set()
EvalSetFirst ==
    IF SetWritesFirst = "start"
    THEN EvalWrite("set_first", "set_second", stable_event, StableStart(now, full_time),
                   times, values)
    ELSE EvalWrite("set_first", "set_second", TRUE, stable_start, times, values)

EvalSetSecond ==
    IF SetWritesFirst = "start"
    THEN EvalWrite("set_second", "poll", TRUE, stable_start, times, values)
    ELSE EvalWrite("set_second", "poll", stable_event, StableStart(now, full_time),
                   times, values)

\* self._stable_event.clear()
EvalClearEvent == EvalWrite("clear_event", "clear_queue", FALSE, stable_start, times, values)

\* self._queue.clear()
EvalClearQueue ==
    EvalWrite("clear_queue", "clear_start", stable_event, stable_start,
              Cleared(times), Cleared(values))

\* self._stable_start = None
EvalClearStart == EvalWrite("clear_start", "poll", stable_event, {}, times, values)

NextE ==
    \/ Tick
    \/ EvalBegin
    \/ EvalSetFirst
    \/ EvalSetSecond
    \/ EvalClearEvent
    \/ EvalClearQueue
    \/ EvalClearStart

\* a running detector over a window TimedQueue(MaxTtl + 1), its thread
\* between two iterations
InitE ==
    /\ now = 0
    /\ qstate = "ok"
    /\ ttl = MaxTtl + 1
    /\ full_time = EffectiveFullTime(MaxTtl + 1, {})
    /\ times = <<>>
    /\ values = <<>>
    /\ result = NoResult
    /\ stop_flag = FALSE
    /\ wakeup = FALSE
    /\ thread = Detector
    /\ nthreads = 1
    /\ tpc = [t \in Threads |-> IF t = Detector THEN "poll" ELSE "none"]
    /\ tval = [t \in Threads |-> 0]
    /\ cpc = [c \in Callers |-> "idle"]
    /\ cthr = [c \in Callers |-> 0]
    /\ ncalls = 0
    /\ g = NoHistory
    /\ serial = TRUE
    /\ NoSession
    /\ \E tol \in Tolerances : InitStable(tol)

SpecE == InitE /\ [][NextE]_vars

\* C35: in every state another thread can observe, the states between the
\* assignments of a stability evaluation included, a set stable event comes
\* with a non-null stable_since: stable_since is written before the event is
\* set and reset only after the event is cleared.
C35_StableSinceWhileStable == stable_event => stable_start # {}

\* the detector is between clearing the event and resetting stable_since
C35_Witness ==
    /\ tpc[Detector] = "clear_start"
    /\ ~stable_event
    /\ stable_start # {}

\* ------------------------------------------------- claims on NaN readings
\* C31: a NaN sensor reading is treated as a failed sample: it is not
\* appended to the stability window, takes part in no stability evaluation,
\* and the stability state after the tick equals the state before it.
C31_NaNDiscarded ==
    /\ [](~HasNaN(values))
    /\ [][(dg'.samples = dg.samples + 1 /\ dg'.last = NaN)
            => UNCHANGED <<times, values, stable_event, stable_start>>]_vars

\* ------------------------------------------- claims on the level of the event
\* C37: wait_for_stability is level-triggered: called while the detector is
\* STABLE it returns successfully at once; in calibrate_ranges and
\* calibrate_p a detector that stays STABLE across a heater configuration
\* change makes the following wait succeed with no stability evaluation
\* after the change.
C37_LevelTriggered ==
    /\ []((upc \in WaitPcs /\ stable_event) => ENABLED ProcStep)
    /\ [][(upc \in WaitPcs /\ upc' \notin WaitPcs)
            => (stable_event /\ stable_event' /\ hlog' = Append(hlog, Waited))]_vars

\* the wait after the second range succeeded, the detector having made no
\* transition since that range was committed
C37_Witness ==
    /\ upc = "cr_next"
    /\ ~kg.since
    /\ Len(cal.results) = 2
    /\ cal.results[2]
    /\ hlog[Len(hlog)] = Waited

\* -------------------------------------------------------- BlueforsLD400
\* None is the empty set and a value x is {x}, as for _stable_start
N_TRY == 5

\* the targets the callers read and the dates the server stamps entries with
Targets == {"t_still", "t_mc"}
MaxDate == 2
Dates == 1..MaxDate

\* the keys _verify_api_version reads from the system information
InfoKeys == {"api_version", "system_version", "system_name"}
Versions == {"v1.0", "v2.0"}
Names == {"", "LD400"}

\* the expected_api_version a caller passes: None or the default of __init__
ExpectedVersions == {{}, {"v2.0"}}

\* the "data" objects a system request can carry: any of the keys may be absent
InfoDicts ==
    {d \in UNION {[ks -> Versions \cup Names] : ks \in SUBSET InfoKeys} :
        \A k \in DOMAIN d : d[k] \in (IF k = "system_name" THEN Names ELSE Versions)}

\* what GET /system yields: an HTTP error status, a body that is not JSON, JSON
\* without "data", "data" that is not an object, or a "data" object
SystemReplies ==
    {[kind |-> k, data |-> <<>>] : k \in {"http_error", "no_json", "no_data", "not_dict"}}
        \cup {[kind |-> "dict", data |-> d] : d \in InfoDicts}

\* dict.get(key)
DictGet(d, k) == IF k \in DOMAIN d THEN {d[k]} ELSE {}

\* a mutation of ReportedName: an empty name is taken for a missing one
NonEmptyName(info) ==
    IF DictGet(info, "system_name") = {""} THEN {} ELSE DictGet(info, "system_name")

\* self.__system_name = system_info.get("system_name")
ReportedName(info) == DictGet(info, "system_name")

\* data["data"][target]["content"]["latest_value"], or the key is missing
Missing ==
    [present |-> FALSE, value |-> 0, outdated |-> FALSE, status |-> "SYNCHRONIZED", date |-> 0]

\* the fields the code does not read are left at one value: the date of an entry
\* that is not outdated, the value of an entry that raises
Entries ==
    {Missing} \cup
    {en \in [present : {TRUE}, value : Values, outdated : BOOLEAN,
             status : {"SYNCHRONIZED", "PENDING"}, date : Dates] :
        /\ ~en.outdated => en.date = 1
        /\ (en.outdated \/ en.status # "SYNCHRONIZED") => en.value = 0}

\* what GET /values yields: an HTTP error status, or a body with an entry
ValueReplies ==
    {[http_ok |-> FALSE, entry |-> Missing]} \cup [http_ok : {TRUE}, entry : Entries]

\* how a call ends, or the error one response gives
Outcome(kind, v, d) == [kind |-> kind, v |-> v, date |-> d]
NoOutcome == Outcome("none", 0, 0)

\* the value of the entry, or the error raised for it
GetValueFromResponse(entry) ==
    IF ~entry.present THEN Outcome("not_found", 0, 0)
    ELSE IF entry.outdated THEN Outcome("outdated", 0, entry.date)
    ELSE IF entry.status # "SYNCHRONIZED" THEN Outcome("not_synchronized", 0, 0)
    ELSE Outcome("value", entry.value, 0)

\* a mutation of Retried: every error of a response is retried
RetriedAny(kind) == kind # "value"

\* except OutdatedError: the errors get_value answers with another request
Retried(kind) == kind = "outdated"

\* a mutation of ClearsOnExit: the cache is cleared after the yield, with no finally
ClearsOnNormalExit(raised) == ~raised

\* try: yield / finally: self.__data = None
ClearsOnExit(raised) == TRUE

\* no get_value has been called
NoCall ==
    [pc |-> "idle", target |-> "", i |-> 0, e |-> {}, last |-> Missing, reqs |-> 0,
     cached |-> FALSE, in_session |-> FALSE, after |-> "never", out |-> NoOutcome]

\* no property of the system information has been read
NoRead == [prop |-> "none", value |-> {}]

\* no BlueforsLD400 has been built
NoDriver ==
    [built |-> "no", expected |-> {}, fetched |-> {}, system_info |-> {}, api_version |-> {},
     system_version |-> {}, system_name |-> {}, got |-> NoRead, data |-> {}, session |-> "out",
     left |-> "never", call |-> NoCall]

\* BlueforsLD400(...): __init__ ends with _verify_api_version(expected_api_version)
BuildDriver ==
    /\ \E reply \in SystemReplies, expected \in ExpectedVersions :
        LET info == reply.data
            fresh == [NoDriver EXCEPT !.fetched = {reply}, !.expected = expected]
            read == [fresh EXCEPT !.system_info = {info},
                                  !.api_version = DictGet(info, "api_version"),
                                  !.system_version = DictGet(info, "system_version"),
                                  !.system_name = ReportedName(info)]
        IN  bf' = IF reply.kind # "dict" THEN [fresh EXCEPT !.built = "failed"]
                  ELSE IF DictGet(info, "api_version") = {} THEN [fresh EXCEPT !.built = "failed"]
                  ELSE IF expected = {} THEN [read EXCEPT !.built = "yes"]
                  ELSE IF DictGet(info, "api_version") # expected
                       THEN [read EXCEPT !.built = "failed"]
                  ELSE [read EXCEPT !.built = "yes"]
    /\ UNCHANGED <<qvars, wvars, dvars, kvars, pq>>

\* the properties api_version, system_version, system_name and system_info
InfoProperties == {"api_version", "system_version", "system_name", "system_info"}

ReadInfo(prop) ==
    /\ bf.built = "yes"
    /\ bf' = [bf EXCEPT !.got =
                [prop |-> prop,
                 value |-> CASE prop = "api_version" -> bf.api_version
                             [] prop = "system_version" -> bf.system_version
                             [] prop = "system_name" -> bf.system_name
                             [] prop = "system_info" -> bf.system_info]]
    /\ UNCHANGED <<qvars, wvars, dvars, kvars, pq>>

ReadInfoAny == \E prop \in InfoProperties : ReadInfo(prop)

NextI == BuildDriver \/ ReadInfoAny

\* with bluefors.read_session(): the statement before the yield
ReadSessionEnter ==
    /\ bf.built = "yes"
    /\ bf.session = "out"
    /\ bf.call.pc # "retry"
    /\ \E http_ok \in BOOLEAN :
        IF http_ok
        THEN \E body \in [Targets -> Entries] :
                bf' = [bf EXCEPT !.data = {body}, !.session = "in"]
        ELSE UNCHANGED bf
    /\ UNCHANGED <<qvars, wvars, dvars, kvars, pq>>

\* the with block is left, by its end or by an exception raised in its body
ReadSessionExit ==
    /\ bf.session = "in"
    /\ bf.call.pc # "retry"
    /\ \E raised \in BOOLEAN :
        bf' = [bf EXCEPT !.data = IF ClearsOnExit(raised) THEN {} ELSE @,
                         !.session = "out",
                         !.left = IF raised THEN "raised" ELSE "normal"]
    /\ UNCHANGED <<qvars, wvars, dvars, kvars, pq>>

\* the cached response self.__data
Cache == CHOOSE body \in bf.data : TRUE

\* get_value(target) up to the end of its first try
GetValue(target) ==
    /\ bf.built = "yes"
    /\ bf.call.pc # "retry"
    /\ \E reply \in ValueReplies :
        LET cached == bf.data # {}
            entry == IF cached THEN Cache[target] ELSE reply.entry
            o == GetValueFromResponse(entry)
            call == [NoCall EXCEPT !.target = target, !.cached = cached,
                                   !.in_session = (bf.session = "in"),
                                   !.after = bf.left,
                                   !.reqs = IF cached THEN 0 ELSE 1]
        IN  /\ cached => reply = [http_ok |-> FALSE, entry |-> Missing]
            /\ bf' = [bf EXCEPT !.call =
                    IF ~cached /\ ~reply.http_ok
                    THEN [call EXCEPT !.pc = "done", !.out = Outcome("http_error", 0, 0)]
                    ELSE IF Retried(o.kind)
                    THEN [call EXCEPT !.pc = "retry", !.e = {o.date}, !.last = entry]
                    ELSE [call EXCEPT !.pc = "done", !.last = entry, !.out = o]]
    /\ UNCHANGED <<qvars, wvars, dvars, kvars, pq>>

GetValueAny == \E target \in Targets : GetValue(target)

\* one pass of for i in range(self.N_TRY)
GetRetry ==
    /\ bf.call.pc = "retry"
    /\ bf.call.i < N_TRY
    /\ \E reply \in ValueReplies :
        LET o == GetValueFromResponse(reply.entry)
            call == [bf.call EXCEPT !.i = @ + 1, !.reqs = @ + 1]
        IN  bf' = [bf EXCEPT !.call =
                    IF ~reply.http_ok
                    THEN [call EXCEPT !.pc = "done", !.last = Missing,
                                      !.out = Outcome("http_error", 0, 0)]
                    ELSE IF Retried(o.kind)
                    THEN [call EXCEPT !.last = reply.entry]
                    ELSE [call EXCEPT !.pc = "done", !.last = reply.entry, !.out = o]]
    /\ UNCHANGED <<qvars, wvars, dvars, kvars, pq>>

\* raise e, once the loop is over
GetGiveUp ==
    /\ bf.call.pc = "retry"
    /\ bf.call.i = N_TRY
    /\ bf' = [bf EXCEPT !.call.pc = "done",
                        !.call.out = Outcome("outdated", 0, CHOOSE d \in bf.call.e : TRUE)]
    /\ UNCHANGED <<qvars, wvars, dvars, kvars, pq>>

NextB ==
    \/ ReadSessionEnter
    \/ ReadSessionExit
    \/ GetValueAny
    \/ GetRetry
    \/ GetGiveUp

\* every variable of the other objects, none of which has been built
NoOtherObject ==
    /\ now = 0
    /\ qstate = "unbuilt"
    /\ ttl = 0
    /\ full_time = 0
    /\ times = <<>>
    /\ values = <<>>
    /\ result = NoResult
    /\ InitWorker
    /\ serial = TRUE
    /\ NoDetector
    /\ scanner = <<>>
    /\ ctl = <<>>
    /\ staged = <<>>
    /\ heater = <<>>
    /\ hlog = <<>>
    /\ upc = "none"
    /\ cal = <<>>
    /\ kg = <<>>
    /\ pq = <<>>

\* no driver has been built
InitI == NoOtherObject /\ bf = NoDriver

SpecI == InitI /\ [][NextI]_vars

\* the system information of the test of the constructor
TestInfo == [api_version |-> "v2.0", system_version |-> "v2.0", system_name |-> ""]

\* a driver built with the default expected_api_version against that system
BuiltDriver ==
    [NoDriver EXCEPT !.built = "yes", !.expected = {"v2.0"},
                     !.fetched = {[kind |-> "dict", data |-> TestInfo]},
                     !.system_info = {TestInfo},
                     !.api_version = DictGet(TestInfo, "api_version"),
                     !.system_version = DictGet(TestInfo, "system_version"),
                     !.system_name = ReportedName(TestInfo)]

InitB == NoOtherObject /\ bf = BuiltDriver

SpecB == InitB /\ [][NextB]_vars

\* ---------------------------------------------------- claims on the driver
\* C32: a driver that was built has fetched the system information, and its
\* system_info is the "data" object of that payload while api_version,
\* system_version and system_name, as stored and as the properties return
\* them, are the fields of that object, an empty system_name included and a
\* missing field read as None
C32_SystemInfoFromPayload ==
    bf.built = "yes" =>
        \E p \in bf.fetched :
            /\ p.kind = "dict"
            /\ "api_version" \in DOMAIN p.data
            /\ bf.system_info = {p.data}
            /\ \A k \in InfoKeys :
                LET field == CASE k = "api_version" -> bf.api_version
                               [] k = "system_version" -> bf.system_version
                               [] k = "system_name" -> bf.system_name
                IN  /\ k \in DOMAIN p.data => field = {p.data[k]}
                    /\ k \notin DOMAIN p.data => field = {}
                    /\ bf.got.prop = k => bf.got.value = field
            /\ bf.got.prop = "system_info" => bf.got.value = {p.data}

\* the system reported an empty name and the property returned it
C32_Witness ==
    /\ bf.built = "yes"
    /\ bf.got.prop = "system_name"
    /\ bf.got.value = {""}
    /\ \E p \in bf.fetched : p.data["system_name"] = ""

\* C33: get_value issues at most N_TRY requests after its first response, and
\* each of them only after an outdated response; a value it returns is the
\* value of the last response it read, which is not outdated; when it raises
\* OutdatedError it has issued N_TRY further requests and the error is the one
\* of the first response; a missing or unsynchronized entry ends the call with
\* that error
C33_RetriesOnlyOutdated ==
    /\ [](bf.call.pc # "idle" =>
            /\ bf.call.i <= N_TRY
            /\ bf.call.reqs = bf.call.i + (IF bf.call.cached THEN 0 ELSE 1))
    /\ [][(bf.call.pc = "retry" /\ bf'.call.reqs = bf.call.reqs + 1)
            => (bf.call.last.present /\ bf.call.last.outdated)]_vars
    /\ [][(bf.call.pc # "retry" /\ bf'.call.pc = "retry")
            => (bf'.call.last.outdated /\ bf'.call.e = {bf'.call.last.date})]_vars
    /\ [][(bf.call.pc = "retry" /\ bf'.call.pc = "retry") => bf'.call.e = bf.call.e]_vars
    /\ [][(bf.call.pc = "retry" /\ bf'.call.pc = "done" /\ bf'.call.out.kind = "outdated")
            => /\ bf.call.i = N_TRY
               /\ bf'.call.reqs = bf.call.reqs
               /\ bf.call.e = {bf'.call.out.date}]_vars
    /\ [](bf.call.pc = "done" =>
            /\ bf.call.out.kind = "value" =>
                /\ bf.call.last.present
                /\ ~bf.call.last.outdated
                /\ bf.call.last.status = "SYNCHRONIZED"
                /\ bf.call.out.v = bf.call.last.value
            /\ bf.call.out.kind = "not_found" => ~bf.call.last.present
            /\ bf.call.out.kind = "not_synchronized" =>
                /\ bf.call.last.present
                /\ ~bf.call.last.outdated
                /\ bf.call.last.status # "SYNCHRONIZED")

\* N_TRY retries were all outdated, the last of them with another date than the
\* first response, and the call raised the error of the first
C33_Witness ==
    /\ bf.call.pc = "done"
    /\ bf.call.out.kind = "outdated"
    /\ bf.call.i = N_TRY
    /\ bf.call.last.date # bf.call.out.date

\* a step that begins a get_value
NewCall == bf.call.pc # "retry" /\ bf'.call # bf.call

\* C34: a get_value begun inside a read_session, whose entry in the response
\* fetched at entry is not outdated, ends at once with no request and with what
\* that entry gives; outside a session no response is cached, and a get_value
\* begun there issues a request of its own
C34_SessionCache ==
    /\ [](bf.session = "out" => bf.data = {})
    /\ [][(bf.session = "in" /\ bf'.session = "in") => bf'.data = bf.data]_vars
    /\ [][(NewCall /\ bf.session = "in" /\ ~Cache[bf'.call.target].outdated)
            => /\ bf'.call.pc = "done"
               /\ bf'.call.reqs = 0
               /\ bf'.call.last = Cache[bf'.call.target]
               /\ (bf'.call.out.kind = "value"
                    => bf'.call.out.v = Cache[bf'.call.target].value)
               /\ bf'.call.out.kind # "http_error"]_vars
    /\ [][(NewCall /\ bf.session = "out") => (~bf'.call.cached /\ bf'.call.reqs = 1)]_vars

\* a session was left through an exception, and a later get_value outside it
\* issued its own request and returned the value
C34_Witness ==
    /\ bf.call.pc = "done"
    /\ bf.call.after = "raised"
    /\ ~bf.call.in_session
    /\ bf.call.reqs = 1
    /\ bf.call.out.kind = "value"

====
